---- MODULE Spec2Model ----
(***************************************************************************)
(* Reconciliation engine of the Gitee sync plugin (SyncManager): the       *)
(* in-progress guard, sync(), firstSync(), the classifier and commitSync,  *)
(* as a state machine whose steps are the points where a run is suspended  *)
(* on I/O.  sync() and firstSync() are entered from event-loop tasks (a    *)
(* command, a ribbon click, the interval timer), so a call interleaves     *)
(* with a run only where the run awaits I/O.                               *)
(***************************************************************************)
EXTENDS Integers, Sequences, FiniteSets, TLC

\* ------------------------------------------------------------------ bounds
\* number of sync()/firstSync() invocations made in one behaviour
MaxCalls == 2
\* file contents are 0..MaxContent; content 0 is the empty string
MaxContent == 2
\* the manifest content is served wrapped in at most MaxWraps base64 layers
MaxWraps == 3
\* window.setInterval is called at most MaxTimers times in one behaviour
MaxTimers == 2
\* the callback of the interval is run at most MaxTicks times in one behaviour
MaxTicks == 1

\* ------------------------------------------------------------------- paths
configDir == ".obsidian"
MANIFEST_FILE_NAME == "gitee-sync-metadata.json"
MANIFEST == ".obsidian/gitee-sync-metadata.json"
NoteA == "a.md"
NoteB == "docs/b.md"
ConfigFile == ".obsidian/app.json"

\* the paths other than the manifest marker
FilePaths == {NoteA, NoteB, ConfigFile}
Paths == FilePaths \cup {MANIFEST}
\* a fixed enumeration order of the keys of an object
PathOrder == <<ConfigFile, NoteA, NoteB, MANIFEST>>

\* first segment of a path ("" for a file of the vault root)
TopFolder(p) ==
    CASE p = NoteA -> ""
      [] p = NoteB -> "docs"
      [] OTHER -> configDir

\* filePath.startsWith(this.vault.configDir)
StartsWithConfigDir(p) == TopFolder(p) = configDir

\* every modelled path has a text extension (.md, .json)
hasTextExtension(p) == p \in Paths

\* ---------------------------------------------------------------- values
Contents == 0..MaxContent
\* "no file at this path" / "no content field"
NoFile == -1
\* sha: null
NullSha == -1
\* a field that is undefined
Undef == -2
\* git blob hash of a content: injective, never null
Hash(c) == 100 + c
\* the hash of the manifest file itself; no decision of the engine reads its value
ManifestSha == 99
\* content field of a tree item that holds the text read from the manifest file
ManifestText == 98

\* FileMetadata: a record of the metadata snapshot
NoRec == [present |-> FALSE, sha |-> NullSha, deleted |-> FALSE,
          deletedAt |-> 0, lastModified |-> 0]
Rec(sha, lm) == [present |-> TRUE, sha |-> sha, deleted |-> FALSE,
                 deletedAt |-> 0, lastModified |-> lm]
Tomb(sha, lm, at) == [present |-> TRUE, sha |-> sha, deleted |-> TRUE,
                      deletedAt |-> at, lastModified |-> lm]

\* Metadata: { lastSync, files }
Snapshot(ls, fs) == [lastSync |-> ls, files |-> fs]

\* an entry of newTreeFiles (NewTreeRequestItem), or no entry
NoItem == [in |-> FALSE, sha |-> Undef, content |-> Undef]
TreeItem(sha) == [in |-> TRUE, sha |-> sha, content |-> Undef]
ContentItem(c) == [in |-> TRUE, sha |-> Undef, content |-> c]

Action(t, p) == [type |-> t, filePath |-> p]

Calls == 1..MaxCalls

VARIABLES
    syncing,          \* SyncManager.syncing
    pc,               \* position of each invocation
    run,              \* locals of each invocation
    trace,            \* history: the I/O each invocation performed, in order
    pre,              \* history: the stores as they were when each run started
    data,             \* metadataStore.data
    persisted,        \* the metadata file on disk (the local manifest marker)
    inflight,         \* saves issued and not awaited, not yet on disk
    vaultFiles,       \* content of each local file, or NoFile
    remoteStatus,     \* 200, or the status a bare repository answers a tree fetch with
    remoteTree,       \* content of each remote blob, or NoFile
    remoteHasManifest,\* the remote tree holds the manifest marker
    remoteManifest,   \* its content: a metadata snapshot
    syncConfigDir,    \* settings.syncConfigDir
    conflictHandling, \* settings.conflictHandling
    ignored,          \* paths the loaded .gitignore rules match
    manifestWire,     \* the `content` getFileContent answers for the manifest
    syncIntervalId,   \* this.syncIntervalId, NoTimer for null
    intervals,        \* the ids of the intervals registered with the window
    timerIds,         \* the number of ids window.setInterval has handed out
    timerCall,        \* the last call on the interval and whether it raised
    orphans,          \* per-file tasks of a Promise.all that already rejected
    now               \* Date.now()

guardVars == <<syncing, pc>>
localVars == <<data, persisted, inflight, vaultFiles>>
remoteVars == <<remoteStatus, remoteTree, remoteHasManifest, remoteManifest>>
timerVars == <<syncIntervalId, intervals, timerIds, timerCall>>
\* what no step of a run changes: the settings, the transport, the timer
settingVars == <<syncConfigDir, conflictHandling, ignored, manifestWire,
                 timerVars>>
vars == <<syncing, pc, run, trace, pre, data, persisted, inflight, vaultFiles,
          remoteStatus, remoteTree, remoteHasManifest, remoteManifest,
          syncConfigDir, conflictHandling, ignored, manifestWire,
          syncIntervalId, intervals, timerIds, timerCall, orphans, now>>

\* --------------------------------------------------------- the sync interval
\* syncIntervalId: null
NoTimer == 0
TimerCall(op, raised) == [op |-> op, raised |-> raised]
NoTimerCall == TimerCall("none", FALSE)
\* the interval as a value: the field, the window's intervals, the ids issued
Timer(id, set, issued) == [id |-> id, set |-> set, issued |-> issued]

\* variant: startSyncInterval without the test of a running interval
StartRaises_Never(t) == FALSE

\* startSyncInterval: if (this.syncIntervalId) throw
StartRaises(t) == t.id # NoTimer

\* startSyncInterval past its test: window.setInterval returns a fresh id,
\* greater than zero
Started(t) ==
    Timer(t.issued + 1, t.set \cup {t.issued + 1}, t.issued + 1)

\* stopSyncInterval
Stopped(t) ==
    IF t.id # NoTimer
    THEN Timer(NoTimer, t.set \ {t.id}, t.issued)
    ELSE t

\* calculateSHA: null when the file does not exist
calculateSHA(filePath) ==
    IF filePath = MANIFEST THEN ManifestSha
    ELSE IF vaultFiles[filePath] = NoFile THEN NullSha
    ELSE Hash(vaultFiles[filePath])

\* vault.adapter.exists
FileExists(p) == p = MANIFEST \/ vaultFiles[p] # NoFile

\* GiteeClient.getRepoContent: the blobs of the remote tree, path -> sha
RepoFiles ==
    [p \in Paths |->
        IF p = MANIFEST
        THEN (IF remoteHasManifest THEN ManifestSha ELSE Undef)
        ELSE (IF remoteTree[p] = NoFile THEN Undef ELSE Hash(remoteTree[p]))]

\* the paths of a sequence of paths that satisfy a set membership, in order
Ordered(S) == SelectSeq(PathOrder, LAMBDA p : p \in S)

\* --------------------------------------------------------------- classifier
\* variant: findConflicts without the test that the actual files differ
findConflicts_NoDivergenceTest(filesMetadata) ==
    {p \in Paths :
        /\ filesMetadata[p].present
        /\ data.files[p].present
        /\ p # MANIFEST
        /\ ~(filesMetadata[p].deleted /\ data.files[p].deleted)
        /\ filesMetadata[p].sha # data.files[p].sha
        /\ calculateSHA(p) # data.files[p].sha}

\* findConflicts: the paths reported as conflicts
findConflicts(filesMetadata) ==
    {p \in Paths :
        /\ filesMetadata[p].present
        /\ data.files[p].present
        /\ p # MANIFEST
        /\ ~(filesMetadata[p].deleted /\ data.files[p].deleted)
        /\ filesMetadata[p].sha # data.files[p].sha
        /\ calculateSHA(p) # data.files[p].sha
        /\ filesMetadata[p].sha # calculateSHA(p)}

\* variant: the direction is decided from the cached hash against the remote hash
CommonAction_CachedAgainstRemote(remoteFile, localFile, localSHA) ==
    IF remoteFile.deleted /\ localFile.deleted THEN "none"
    ELSE IF remoteFile.sha = localSHA THEN "none"
    ELSE IF remoteFile.deleted /\ ~localFile.deleted
            /\ remoteFile.deletedAt > localFile.lastModified THEN "delete_local"
    ELSE IF remoteFile.deleted /\ ~localFile.deleted
            /\ localFile.lastModified > remoteFile.deletedAt THEN "upload"
    ELSE IF ~remoteFile.deleted /\ localFile.deleted
            /\ remoteFile.lastModified > localFile.deletedAt THEN "download"
    ELSE IF ~remoteFile.deleted /\ localFile.deleted
            /\ localFile.deletedAt > remoteFile.lastModified THEN "delete_remote"
    ELSE IF remoteFile.sha = localFile.sha THEN "upload"
    ELSE "download"

\* variant: without the return on equal hashes
CommonAction_NoEqualHashReturn(remoteFile, localFile, localSHA) ==
    IF remoteFile.deleted /\ localFile.deleted THEN "none"
    ELSE IF remoteFile.deleted /\ ~localFile.deleted
            /\ remoteFile.deletedAt > localFile.lastModified THEN "delete_local"
    ELSE IF remoteFile.deleted /\ ~localFile.deleted
            /\ localFile.lastModified > remoteFile.deletedAt THEN "upload"
    ELSE IF ~remoteFile.deleted /\ localFile.deleted
            /\ remoteFile.lastModified > localFile.deletedAt THEN "download"
    ELSE IF ~remoteFile.deleted /\ localFile.deleted
            /\ localFile.deletedAt > remoteFile.lastModified THEN "delete_remote"
    ELSE IF localSHA # localFile.sha THEN "upload"
    ELSE "download"

\* the action of determineSyncActions for a path present on both sides
CommonAction(remoteFile, localFile, localSHA) ==
    IF remoteFile.deleted /\ localFile.deleted THEN "none"
    ELSE IF remoteFile.sha = localSHA THEN "none"
    ELSE IF remoteFile.deleted /\ ~localFile.deleted
            /\ remoteFile.deletedAt > localFile.lastModified THEN "delete_local"
    ELSE IF remoteFile.deleted /\ ~localFile.deleted
            /\ localFile.lastModified > remoteFile.deletedAt THEN "upload"
    ELSE IF ~remoteFile.deleted /\ localFile.deleted
            /\ remoteFile.lastModified > localFile.deletedAt THEN "download"
    ELSE IF ~remoteFile.deleted /\ localFile.deleted
            /\ localFile.deletedAt > remoteFile.lastModified THEN "delete_remote"
    ELSE IF localSHA # localFile.sha THEN "upload"
    ELSE "download"

\* variant: determineSyncActions without the filter on the config directory
ConfigDirFilter_Never(actions) == actions

\* the filter applied when the config directory is not synced
ConfigDirFilter(actions) ==
    IF ~syncConfigDir
    THEN {a \in actions :
            ~StartsWithConfigDir(a.filePath) \/ a.filePath = MANIFEST}
    ELSE actions

\* variant: a path only in the remote metadata is downloaded even when its
\* record is a tombstone
ClassifiedActions_TombstoneDownloads(remoteFiles, localFiles, conflictFiles) ==
    LET commonFiles == {p \in Paths : /\ remoteFiles[p].present
                                      /\ localFiles[p].present
                                      /\ p \notin conflictFiles}
        common == {Action(CommonAction(remoteFiles[p], localFiles[p],
                                       calculateSHA(p)), p) :
                      p \in {q \in commonFiles \ {MANIFEST} :
                               CommonAction(remoteFiles[q], localFiles[q],
                                            calculateSHA(q)) # "none"}}
        remoteOnly == {Action("download", p) :
                          p \in {q \in Paths : /\ remoteFiles[q].present
                                               /\ ~localFiles[q].present}}
        localOnly == {Action("upload", p) :
                         p \in {q \in Paths : /\ localFiles[q].present
                                              /\ ~remoteFiles[q].present
                                              /\ ~localFiles[q].deleted}}
    IN  common \cup remoteOnly \cup localOnly

\* the list `actions` of determineSyncActions after its three loops
ClassifiedActions(remoteFiles, localFiles, conflictFiles) ==
    LET commonFiles == {p \in Paths : /\ remoteFiles[p].present
                                      /\ localFiles[p].present
                                      /\ p \notin conflictFiles}
        common == {Action(CommonAction(remoteFiles[p], localFiles[p],
                                       calculateSHA(p)), p) :
                      p \in {q \in commonFiles \ {MANIFEST} :
                               CommonAction(remoteFiles[q], localFiles[q],
                                            calculateSHA(q)) # "none"}}
        remoteOnly == {Action("download", p) :
                          p \in {q \in Paths : /\ remoteFiles[q].present
                                               /\ ~localFiles[q].present
                                               /\ ~remoteFiles[q].deleted}}
        localOnly == {Action("upload", p) :
                         p \in {q \in Paths : /\ localFiles[q].present
                                              /\ ~remoteFiles[q].present
                                              /\ ~localFiles[q].deleted}}
    IN  common \cup remoteOnly \cup localOnly

determineSyncActions(remoteFiles, localFiles, conflictFiles) ==
    ConfigDirFilter(ClassifiedActions(remoteFiles, localFiles, conflictFiles))

\* ------------------------------------------------------ invocation locals
EmptySnapshot == Snapshot(0, [p \in Paths |-> NoRec])

NoRun == [kind |-> "none",
          files |-> [p \in Paths |-> Undef],
          status |-> 0,
          repositoryIsEmpty |-> FALSE,
          remoteMetadata |-> EmptySnapshot,
          conflicts |-> {},
          conflictResolutions |-> [p \in Paths |-> Undef],
          asked |-> {},
          actions |-> {},
          actionsLength |-> 0,
          newTreeFiles |-> [p \in Paths |-> NoItem],
          manifestRead |-> EmptySnapshot,
          pending |-> {},
          archive |-> [p \in FilePaths |-> NoFile],
          syncTime |-> 0,
          changes |-> <<>>,
          err |-> ""]

\* the stores a run can change
Stores == [data |-> data, persisted |-> persisted, vaultFiles |-> vaultFiles,
           remoteStatus |-> remoteStatus, remoteTree |-> remoteTree,
           remoteHasManifest |-> remoteHasManifest,
           remoteManifest |-> remoteManifest]

\* an invocation that is at a step of a run
Active(i) == pc[i] \notin {"idle", "rejected", "ok", "nothing", "failed", "threw"}
\* invocations are made in order
MayCall(i) == pc[i] = "idle" /\ (IF i = 1 THEN TRUE ELSE pc[i - 1] # "idle")

\* ------------------------------------------------------------------- Init
\* One path's part of a state reached after earlier syncs of this vault and of
\* another vault against the same repository: the local file (vf), the local
\* record (l), the remote manifest's record (r), the remote blob (rt).
Scene(vf, l, r, rt) == [vf |-> vf, l |-> l, r |-> r, rt |-> rt]

Absent == Scene(NoFile, NoRec, NoRec, NoFile)

ScenesA ==
    { Scene(1, Rec(Hash(1), 1), Rec(Hash(1), 1), 1),           \* in sync
      Scene(2, Rec(Hash(1), 2), Rec(Hash(1), 1), 1),           \* edited locally
      Scene(1, Rec(Hash(1), 1), Rec(Hash(2), 2), 2),           \* edited remotely
      Scene(2, Rec(Hash(1), 2), Rec(Hash(0), 2), 0),           \* edited on both sides
      Scene(2, Rec(Hash(1), 2), Rec(Hash(2), 2), 2),           \* same edit on both sides
      Scene(1, Rec(Hash(1), 1), Tomb(Hash(1), 1, 2), NoFile),  \* deleted remotely
      Scene(2, Rec(Hash(1), 3), Tomb(Hash(1), 1, 2), NoFile),  \* ... then edited locally
      Scene(1, Rec(Hash(1), 2), Tomb(Hash(1), 1, 2), NoFile),  \* ... at the same instant
      \* edited, then deleted remotely at the instant of the local record
      Scene(1, Rec(Hash(1), 2), Tomb(Hash(2), 1, 2), NoFile),
      Scene(NoFile, Tomb(Hash(1), 1, 2), Rec(Hash(1), 1), 1),  \* deleted locally
      Scene(NoFile, Tomb(Hash(1), 1, 2), Rec(Hash(2), 3), 2),  \* ... then edited remotely
      Scene(NoFile, Tomb(Hash(1), 1, 2), Rec(Hash(1), 3), 1),  \* ... then restored remotely
      Scene(NoFile, Tomb(Hash(1), 1, 2), Tomb(Hash(1), 1, 3), NoFile), \* deleted on both
      \* deleted locally, created again while the plugin was not running, and
      \* edited remotely
      Scene(2, Tomb(Hash(1), 1, 2), Rec(Hash(0), 3), 0),
      Scene(1, Rec(NullSha, 2), NoRec, NoFile),                \* new local file
      Scene(NoFile, NoRec, Rec(Hash(2), 2), 2) }               \* new remote file

ScenesB ==
    { Absent,
      Scene(NoFile, NoRec, Rec(Hash(2), 2), 2),
      Scene(1, Rec(Hash(1), 1), Tomb(Hash(1), 1, 2), NoFile),
      Scene(1, Rec(NullSha, 2), NoRec, NoFile) }

ScenesConfig ==
    { Scene(1, NoRec, NoRec, NoFile),
      Scene(1, NoRec, Rec(Hash(2), 2), 2),
      Scene(2, Rec(Hash(1), 2), Rec(Hash(1), 1), 1) }

ManifestRec == Rec(ManifestSha, 1)

\* ---------------------------------------------- the manifest on the wire
\* A manifest `content` string: a text under `wraps` layers of base64.  The
\* text is the serialised metadata snapshot, the JSON literal null, or
\* something that is not JSON.
WireTexts == {"snapshot", "null", "junk"}
Wire(w, t) == [wraps |-> w, text |-> t]
Wires == {Wire(w, t) : w \in 0..MaxWraps, t \in WireTexts}
\* what the contents API serves: the file under one layer of base64
ApiWire == Wire(1, "snapshot")

\* utils.decodeBase64String: strips one layer; decoding what is not base64
\* yields bytes that are not JSON
decodeBase64String(content) ==
    IF content.wraps > 0
    THEN Wire(content.wraps - 1, content.text)
    ELSE Wire(0, "junk")

\* JSON.parse: the kind of value parsed, or "throws"
JSONparse(content) ==
    IF content.wraps > 0 \/ content.text = "junk"
    THEN "throws"
    ELSE IF content.text = "null" THEN "null" ELSE "object"

\* variant: the double decode is tried first
strategies_Reversed == <<"double", "single", "direct">>

\* syncImpl: the parsing strategies, in the order of the array
strategies == <<"direct", "single", "double">>

\* the body of one strategy
StrategyResult(name, content) ==
    CASE name = "direct" -> JSONparse(content)
      [] name = "single" -> JSONparse(decodeBase64String(content))
      [] name = "double" ->
             JSONparse(decodeBase64String(decodeBase64String(content)))

\* the strategy loop: how many strategies it runs before its break
StrategiesTried(content) ==
    LET parsed == {k \in 1..Len(strategies) :
                      StrategyResult(strategies[k], content) # "throws"}
    IN  IF parsed = {}
        THEN Len(strategies)
        ELSE CHOOSE k \in parsed : \A j \in parsed : k <= j

\* the strategy loop: what remoteMetadata holds after it
ParsedManifest(content) ==
    LET last == StrategyResult(strategies[StrategiesTried(content)], content)
    IN  IF last = "throws" THEN "undefined" ELSE last

\* the trace entries of the loop, one per strategy run
StrategyLog(content) ==
    [k \in 1..StrategiesTried(content) |-> <<"strategy", strategies[k]>>]

InitRuns ==
    /\ syncing = FALSE
    /\ syncIntervalId = NoTimer
    /\ intervals = {}
    /\ timerIds = 0
    /\ timerCall = NoTimerCall
    /\ pc = [i \in Calls |-> "idle"]
    /\ run = [i \in Calls |-> NoRun]
    /\ trace = [i \in Calls |-> <<>>]
    /\ inflight = {}
    /\ orphans = {}
    /\ now = 5

\* a vault that has synced before, and may have diverged from the remote since
SyncedVault ==
    /\ InitRuns
    /\ syncConfigDir \in BOOLEAN
    /\ conflictHandling \in {"ask", "overwriteLocal", "overwriteRemote"}
    /\ ignored = {}
    /\ \E a \in ScenesA, b \in ScenesB, c \in ScenesConfig :
         LET sc == [p \in FilePaths |->
                       IF p = NoteA THEN a ELSE IF p = NoteB THEN b ELSE c]
         IN  /\ vaultFiles = [p \in FilePaths |-> sc[p].vf]
             /\ data = Snapshot(4, [p \in Paths |->
                          IF p = MANIFEST THEN ManifestRec ELSE sc[p].l])
             /\ remoteTree = [p \in FilePaths |-> sc[p].rt]
             /\ remoteManifest = Snapshot(4, [p \in Paths |->
                          IF p = MANIFEST THEN ManifestRec ELSE sc[p].r])
    /\ persisted = data
    /\ remoteStatus = 200
    /\ remoteHasManifest = TRUE
    /\ pre = [i \in Calls |-> Stores]

\* ... whose manifest is served the way the contents API serves a file
InitSync ==
    /\ SyncedVault
    /\ manifestWire = ApiWire

\* ------------------------------------------------------- per-file operations
\* the stores after downloadFile(file, lastModified) succeeded
downloadFile(filePath, sha, lastModified) ==
    IF data.files[filePath].present /\ data.files[filePath].sha = sha
    THEN [data |-> data, vaultFiles |-> vaultFiles,
          persisted |-> persisted, inflight |-> inflight]
    ELSE LET d == [data EXCEPT !.files[filePath] = Rec(sha, lastModified)]
         IN  [data |-> d,
              vaultFiles |-> [vaultFiles EXCEPT ![filePath] = remoteTree[filePath]],
              persisted |-> d,
              inflight |-> inflight]

\* the stores after deleteLocalFile(filePath) succeeded; its save is not awaited
deleteLocalFile(filePath) ==
    LET d == [data EXCEPT !.files[filePath].deleted = TRUE,
                          !.files[filePath].deletedAt = now]
    IN  [data |-> d,
         vaultFiles |-> [vaultFiles EXCEPT ![filePath] = NoFile],
         persisted |-> persisted,
         inflight |-> inflight \cup {d}]

\* a per-file task of the Promise.all of syncImpl
Task(i, a) == [type |-> a.type, filePath |-> a.filePath,
               sha |-> run[i].files[a.filePath],
               lastModified |-> run[i].remoteMetadata.files[a.filePath].lastModified]

\* whether the task can succeed: the tree entry exists, the file to remove exists
TaskCanSucceed(t) ==
    IF t.type = "download"
    THEN t.sha # Undef /\ remoteTree[t.filePath] # NoFile
    ELSE vaultFiles[t.filePath] # NoFile /\ data.files[t.filePath].present

TaskEffect(t) ==
    IF t.type = "download"
    THEN downloadFile(t.filePath, t.sha, t.lastModified)
    ELSE deleteLocalFile(t.filePath)

\* the I/O a task performs
TaskTrace(t) ==
    IF t.type = "download"
    THEN IF data.files[t.filePath].present /\ data.files[t.filePath].sha = t.sha
         THEN <<>>
         ELSE << <<"getFileContent", t.filePath>>, <<"writeBinary", t.filePath>>,
                 <<"save", MANIFEST>> >>
    ELSE << <<"remove", t.filePath>>, <<"save", MANIFEST>> >>

\* ------------------------------------------------------------------ sync()
Log(i, ops) == trace' = [trace EXCEPT ![i] = @ \o ops]

\* variant: sync() without the test of the guard
SyncAlreadyInProgress_Never == FALSE
\* if (this.syncing) at the head of sync()
SyncAlreadyInProgress == syncing
\* if (this.syncing) at the head of firstSync()
FirstSyncAlreadyInProgress == syncing
\* this.syncing after the finally block of sync()
SyncingAfterSync == FALSE
\* variant: firstSync() that leaves the guard as it is when it ends
SyncingAfterFirstSync_Kept == syncing
\* this.syncing after firstSync() returned or rethrew
SyncingAfterFirstSync == FALSE

CallSync(i) ==
    /\ MayCall(i)
    /\ now' = now + 1
    /\ IF SyncAlreadyInProgress
       THEN /\ pc' = [pc EXCEPT ![i] = "rejected"]
            /\ run' = [run EXCEPT ![i].kind = "sync"]
            /\ UNCHANGED <<syncing, pre>>
       ELSE /\ syncing' = TRUE
            /\ pc' = [pc EXCEPT ![i] = "s_fetch"]
            /\ run' = [run EXCEPT ![i].kind = "sync"]
            /\ pre' = [pre EXCEPT ![i] = Stores]
    /\ UNCHANGED <<trace, localVars, remoteVars, settingVars, orphans>>

\* variant: syncImpl goes on without the manifest
ManifestMissing_Never(files) == FALSE

\* manifest === undefined
ManifestMissing(files) == files[MANIFEST] = Undef

\* syncImpl: fetch of the remote tree, and the check that it holds the manifest
SyncFetch(i) ==
    /\ pc[i] = "s_fetch"
    /\ Log(i, << <<"getRepoContent", "">> >>)
    /\ \E ok \in BOOLEAN :
         IF ~ok \/ remoteStatus # 200
         THEN /\ pc' = [pc EXCEPT ![i] = "s_catch"]
              /\ run' = [run EXCEPT ![i].err = "Failed to get repo content"]
         ELSE IF ManifestMissing(RepoFiles)
         THEN /\ pc' = [pc EXCEPT ![i] = "s_catch"]
              /\ run' = [run EXCEPT ![i].err = "Remote manifest is missing"]
         ELSE /\ pc' = [pc EXCEPT ![i] = "s_manifest"]
              /\ run' = [run EXCEPT ![i].files = RepoFiles]
    /\ UNCHANGED <<syncing, pre, localVars, remoteVars, settingVars, orphans, now>>

\* syncImpl: fetch and parse of the remote manifest
SyncManifest(i) ==
    /\ pc[i] = "s_manifest"
    /\ \E ok \in BOOLEAN :
         IF ~ok
         THEN /\ Log(i, << <<"getFileContent", MANIFEST>> >>)
              /\ pc' = [pc EXCEPT ![i] = "s_catch"]
              /\ run' = [run EXCEPT ![i].err = "Failed to get file content"]
         ELSE /\ Log(i, << <<"getFileContent", MANIFEST>> >>
                          \o StrategyLog(manifestWire))
              /\ IF ParsedManifest(manifestWire) = "object"
                 THEN /\ pc' = [pc EXCEPT ![i] = "s_conflicts"]
                      /\ run' = [run EXCEPT
                                    ![i].remoteMetadata = remoteManifest]
                 ELSE /\ pc' = [pc EXCEPT ![i] = "s_catch"]
                      /\ run' = [run EXCEPT
                                    ![i].err = "Failed to parse manifest"]
    /\ UNCHANGED <<syncing, pre, localVars, remoteVars, settingVars, orphans, now>>

\* variant: the resolver is asked under every policy
AsksResolver_AnyPolicy(conflicts) == conflicts # {}

\* conflicts.length > 0 and conflictHandling === "ask"
AsksResolver(conflicts) == conflicts # {} /\ conflictHandling = "ask"

\* findConflicts, with the load of both contents of every conflicting path
SyncFindConflicts(i) ==
    /\ pc[i] = "s_conflicts"
    /\ LET conflicts == findConflicts(run[i].remoteMetadata.files)
           paths == Ordered(conflicts)
           loadable == \A p \in conflicts :
                          remoteTree[p] # NoFile /\ vaultFiles[p] # NoFile
       IN  /\ Log(i, [k \in 1..Len(paths) |-> <<"getFileContent", paths[k]>>])
           /\ \E ok \in BOOLEAN :
                IF conflicts # {} /\ (~ok \/ ~loadable)
                THEN /\ pc' = [pc EXCEPT ![i] = "s_catch"]
                     /\ run' = [run EXCEPT ![i].err = "Failed to load conflict"]
                ELSE /\ run' = [run EXCEPT ![i].conflicts = conflicts]
                     /\ pc' = [pc EXCEPT ![i] =
                                 IF AsksResolver(conflicts)
                                 THEN "s_resolve" ELSE "s_actions"]
    /\ UNCHANGED <<syncing, pre, localVars, remoteVars, settingVars, orphans, now>>

\* this.onConflicts(conflicts): the external resolver answers for any of the
\* conflicts, with any content
SyncResolve(i) ==
    /\ pc[i] = "s_resolve"
    /\ Log(i, << <<"onConflicts", "">> >>)
    /\ \E S \in SUBSET run[i].conflicts :
         \E f \in [S -> Contents] :
            run' = [run EXCEPT ![i].asked = run[i].conflicts,
                              ![i].conflictResolutions =
                       [p \in Paths |-> IF p \in S THEN f[p] ELSE Undef]]
    /\ pc' = [pc EXCEPT ![i] = "s_actions"]
    /\ UNCHANGED <<syncing, pre, localVars, remoteVars, settingVars, orphans, now>>

\* the actions a run makes of its conflict resolutions
ConflictActions(conflicts, resolutions) ==
    LET resolved == {p \in Paths : resolutions[p] # Undef}
    IN  IF conflicts = {} THEN {}
        ELSE IF conflictHandling = "ask"
        THEN {Action("upload", p) : p \in resolved}
        ELSE IF conflictHandling = "overwriteLocal"
        THEN {Action("download", p) : p \in resolved}
        ELSE {Action("upload", p) : p \in resolved}

\* variant: no path is handed to determineSyncActions as a conflict
ClassifierExclusion_None(conflictActions) == {}

\* conflictActions.map((action) => action.filePath)
ClassifierExclusion(conflictActions) == {a.filePath : a \in conflictActions}

\* the final action list of a run
RunActions(i) ==
    LET conflictActions ==
            ConflictActions(run[i].conflicts, run[i].conflictResolutions)
    IN  determineSyncActions(run[i].remoteMetadata.files, data.files,
                             ClassifierExclusion(conflictActions))
        \cup conflictActions

\* actions.length: the two lists are spread one after the other
RunActionsLength(i) ==
    LET conflictActions ==
            ConflictActions(run[i].conflicts, run[i].conflictResolutions)
    IN  Cardinality(determineSyncActions(run[i].remoteMetadata.files,
                                         data.files,
                                         ClassifierExclusion(conflictActions)))
        + Cardinality(conflictActions)

\* content of an upload: resolution?.content || (await read(path))
UploadContent(resolutions, p) ==
    IF resolutions[p] # Undef /\ resolutions[p] # 0
    THEN resolutions[p]
    ELSE vaultFiles[p]

\* newTreeFiles of syncImpl
SyncTree(files, actions, resolutions) ==
    [p \in Paths |->
        IF Action("upload", p) \in actions
        THEN ContentItem(IF p = MANIFEST THEN ManifestText
                         ELSE UploadContent(resolutions, p))
        ELSE IF Action("delete_remote", p) \in actions /\ files[p] # Undef
        THEN TreeItem(NullSha)
        ELSE IF files[p] # Undef THEN TreeItem(files[p])
        ELSE NoItem]

\* building newTreeFiles throws: an upload of a file that cannot be read, a
\* remote delete of a path the tree does not hold
SyncTreeThrows(files, actions, resolutions) ==
    \E a \in actions :
        \/ /\ a.type = "upload"
           /\ a.filePath # MANIFEST
           /\ UploadContent(resolutions, a.filePath) = NoFile
        \/ /\ a.type = "delete_remote"
           /\ files[a.filePath] = Undef

\* variant: syncImpl without the return on an empty action list
NothingToSync_Never(actions) == FALSE

\* if (actions.length === 0)
NothingToSync(actions) == actions = {}

SyncActions(i) ==
    /\ pc[i] = "s_actions"
    /\ LET actions == RunActions(i)
           res == run[i].conflictResolutions
           pending == {a \in actions : a.type \in {"download", "delete_local"}}
       IN  IF NothingToSync(actions)
           THEN /\ pc' = [pc EXCEPT ![i] = "s_empty"]
                /\ run' = [run EXCEPT ![i].actions = actions,
                                      ![i].actionsLength =
                                          RunActionsLength(i)]
           ELSE IF SyncTreeThrows(run[i].files, actions, res)
           THEN /\ pc' = [pc EXCEPT ![i] = "s_catch"]
                /\ run' = [run EXCEPT ![i].actions = actions,
                                      ![i].actionsLength =
                                          RunActionsLength(i),
                                      ![i].err = "Failed to build tree"]
           ELSE /\ pc' = [pc EXCEPT ![i] =
                            IF pending = {} THEN "c_begin" ELSE "s_apply"]
                /\ run' = [run EXCEPT ![i].actions = actions,
                                      ![i].actionsLength =
                                          RunActionsLength(i),
                                      ![i].pending = pending,
                                      ![i].manifestRead = persisted,
                                      ![i].newTreeFiles =
                                          SyncTree(run[i].files, actions, res)]
    /\ UNCHANGED <<syncing, trace, pre, localVars, remoteVars, settingVars,
                   orphans, now>>

\* one of the downloads and local deletes of the Promise.all completes or
\* rejects; the others of a rejected Promise.all keep running
SyncApply(i) ==
    /\ pc[i] = "s_apply"
    /\ \E a \in run[i].pending :
         LET t == Task(i, a)
             rest == run[i].pending \ {a}
         IN  \E ok \in BOOLEAN :
                IF ok /\ TaskCanSucceed(t)
                THEN /\ data' = TaskEffect(t).data
                     /\ vaultFiles' = TaskEffect(t).vaultFiles
                     /\ persisted' = TaskEffect(t).persisted
                     /\ inflight' = TaskEffect(t).inflight
                     /\ Log(i, TaskTrace(t))
                     /\ run' = [run EXCEPT ![i].pending = rest]
                     /\ pc' = [pc EXCEPT ![i] =
                                 IF rest = {} THEN "c_begin" ELSE "s_apply"]
                     /\ UNCHANGED orphans
                ELSE /\ orphans' = orphans \cup {Task(i, b) : b \in rest}
                     /\ run' = [run EXCEPT ![i].pending = {},
                                           ![i].err = "Failed to apply action"]
                     /\ pc' = [pc EXCEPT ![i] = "s_catch"]
                     /\ UNCHANGED <<trace, localVars>>
    /\ UNCHANGED <<syncing, pre, remoteVars, settingVars, now>>

\* a task left running by a rejected Promise.all completes or fails
OrphanStep ==
    /\ \E t \in orphans :
         /\ orphans' = orphans \ {t}
         /\ \E ok \in BOOLEAN :
              IF ok /\ TaskCanSucceed(t)
              THEN /\ data' = TaskEffect(t).data
                   /\ vaultFiles' = TaskEffect(t).vaultFiles
                   /\ persisted' = TaskEffect(t).persisted
                   /\ inflight' = TaskEffect(t).inflight
              ELSE UNCHANGED localVars
    /\ UNCHANGED <<syncing, pc, run, trace, pre, remoteVars, settingVars, now>>

\* the catch and finally blocks of sync(), which swallows the error
SyncFinally(i) ==
    /\ pc[i] \in {"s_return", "s_empty", "s_catch"}
    /\ syncing' = SyncingAfterSync
    /\ pc' = [pc EXCEPT ![i] = CASE pc[i] = "s_return" -> "ok"
                                 [] pc[i] = "s_empty" -> "nothing"
                                 [] OTHER -> "failed"]
    /\ UNCHANGED <<run, trace, pre, localVars, remoteVars, settingVars,
                   orphans, now>>

\* a save that was not awaited reaches the disk
SaveFlush ==
    /\ \E s \in inflight :
         /\ persisted' = s
         /\ inflight' = inflight \ {s}
    /\ UNCHANGED <<syncing, pc, run, trace, pre, data, vaultFiles, remoteVars,
                   settingVars, orphans, now>>

\* -------------------------------------------------------------- commitSync
Change(a, p, c, m) == [action |-> a, path |-> p, content |-> c, manifest |-> m]

\* the record of a path once commitSync has processed its tree item
CommitRecord(rec, item, p, syncTime) ==
    IF item.in /\ item.sha = NullSha
    THEN (IF rec.present
          THEN [rec EXCEPT !.deleted = TRUE, !.deletedAt = syncTime]
          ELSE rec)
    ELSE IF item.in /\ item.content # Undef
    THEN (IF rec.present
          THEN [rec EXCEPT !.sha = calculateSHA(p)]
          ELSE Rec(calculateSHA(p), syncTime))
    ELSE rec

\* the change commitSync makes of a tree item that is a delete or carries content
CommitChange(item, p, manifestRead) ==
    IF item.sha = NullSha
    THEN Change("delete", p, Undef, EmptySnapshot)
    ELSE LET sha == calculateSHA(p)
             fileExistsInRemote == item.sha # Undef /\ item.sha # sha
             content == IF hasTextExtension(p)
                        THEN item.content ELSE vaultFiles[p]
         IN  Change(IF fileExistsInRemote THEN "update" ELSE "create", p,
                    content,
                    IF p = MANIFEST THEN manifestRead ELSE EmptySnapshot)

\* variant: commitSync turns only the tree items with content into a change
ChangedPaths_ContentOnly(treeFiles) ==
    {p \in Paths : treeFiles[p].in /\ treeFiles[p].content # Undef}

\* the paths of treeFiles that commitSync turns into a change
ChangedPaths(treeFiles) ==
    {p \in Paths : /\ treeFiles[p].in
                   /\ (treeFiles[p].sha = NullSha \/ treeFiles[p].content # Undef)}

\* metadata after the loop over treeFiles
CommitData(treeFiles, resolutions, syncTime) ==
    [data EXCEPT
        !.lastSync = syncTime,
        !.files = [p \in Paths |->
            CommitRecord(
                IF resolutions[p] # Undef /\ data.files[p].present
                THEN [data.files[p] EXCEPT !.lastModified = syncTime]
                ELSE data.files[p],
                treeFiles[p], p, syncTime)]]

\* variant: the manifest change serialises the metadata as they were before
\* the loop over treeFiles
ManifestChange_BeforeLoop(d) ==
    LET manifestFile == d.files[MANIFEST]
        manifestExists == manifestFile.present /\ manifestFile.sha # NullSha
    IN  Change(IF manifestExists THEN "update" ELSE "create", MANIFEST,
               ManifestText, data)

\* the change for the manifest marker, appended after all the others
ManifestChange(d) ==
    LET manifestFile == d.files[MANIFEST]
        manifestExists == manifestFile.present /\ manifestFile.sha # NullSha
    IN  Change(IF manifestExists THEN "update" ELSE "create", MANIFEST,
               ManifestText, d)

\* the change list commitSync submits
CommitChanges(treeFiles, resolutions, manifestRead, syncTime) ==
    LET paths == Ordered(ChangedPaths(treeFiles))
    IN  [k \in 1..Len(paths) |->
            CommitChange(treeFiles[paths[k]], paths[k], manifestRead)]
        \o << ManifestChange(CommitData(treeFiles, resolutions, syncTime)) >>

\* metadata once the manifest record has been given the manifest's hash
WithManifestSha(d, syncTime) ==
    [d EXCEPT !.files[MANIFEST] =
        IF d.files[MANIFEST].present
        THEN [d.files[MANIFEST] EXCEPT !.sha = calculateSHA(MANIFEST)]
        ELSE Rec(calculateSHA(MANIFEST), syncTime)]

\* variant: commitSync writes the resolutions to the vault before the commit
\* request
CommitBegin_WritesResolutions(i) ==
    /\ pc[i] = "c_begin"
    /\ LET syncTime == now
           res == run[i].conflictResolutions
           tree == run[i].newTreeFiles
           resolved == {p \in FilePaths : res[p] # Undef}
           paths == Ordered(resolved)
       IN  /\ persisted' = [data EXCEPT !.lastSync = syncTime]
           /\ data' = WithManifestSha(CommitData(tree, res, syncTime), syncTime)
           /\ run' = [run EXCEPT
                        ![i].syncTime = syncTime,
                        ![i].changes =
                            CommitChanges(tree, res, run[i].manifestRead, syncTime)]
           /\ vaultFiles' = [p \in FilePaths |->
                                IF p \in resolved THEN res[p] ELSE vaultFiles[p]]
           /\ Log(i, << <<"save", MANIFEST>> >>
                     \o [k \in 1..Len(paths) |-> <<"write", paths[k]>>])
    /\ pc' = [pc EXCEPT ![i] = "c_commit"]
    /\ UNCHANGED <<syncing, pre, inflight, remoteVars, settingVars,
                   orphans, now>>

\* commitSync up to the commit request: lastSync is set and saved first
CommitBegin(i) ==
    /\ pc[i] = "c_begin"
    /\ LET syncTime == now
           res == run[i].conflictResolutions
           tree == run[i].newTreeFiles
       IN  /\ persisted' = [data EXCEPT !.lastSync = syncTime]
           /\ data' = WithManifestSha(CommitData(tree, res, syncTime), syncTime)
           /\ run' = [run EXCEPT
                        ![i].syncTime = syncTime,
                        ![i].changes =
                            CommitChanges(tree, res, run[i].manifestRead, syncTime)]
    /\ Log(i, << <<"save", MANIFEST>> >>)
    /\ pc' = [pc EXCEPT ![i] = "c_commit"]
    /\ UNCHANGED <<syncing, pre, inflight, vaultFiles, remoteVars, settingVars,
                   orphans, now>>

\* index of the last change of a path in a change list, 0 if there is none
LastChange(changes, p) ==
    LET idx == {k \in 1..Len(changes) : changes[k].path = p}
    IN  IF idx = {} THEN 0 ELSE CHOOSE k \in idx : \A j \in idx : j <= k

\* the remote tree after GiteeClient.commitChanges applied a change list
TreeAfter(changes) ==
    [p \in FilePaths |->
        LET k == LastChange(changes, p)
        IN  IF k = 0 THEN remoteTree[p]
            ELSE IF changes[k].action = "delete" THEN NoFile
            ELSE changes[k].content]

\* the commit request: all the changes land, or none
CommitSend(i) ==
    /\ pc[i] = "c_commit"
    /\ Log(i, << <<"commitChanges", "">> >>)
    /\ \E ok \in BOOLEAN :
         IF ok
         THEN /\ remoteTree' = TreeAfter(run[i].changes)
              /\ remoteHasManifest' = TRUE
              /\ remoteManifest' =
                    run[i].changes[LastChange(run[i].changes, MANIFEST)].manifest
              /\ pc' = [pc EXCEPT ![i] = "c_after"]
              /\ UNCHANGED <<syncing, run, remoteStatus>>
         ELSE /\ run' = [run EXCEPT ![i].err = "Failed to commit changes"]
              /\ IF run[i].kind = "sync"
                 THEN /\ pc' = [pc EXCEPT ![i] = "s_catch"]
                      /\ UNCHANGED syncing
                 ELSE /\ pc' = [pc EXCEPT ![i] = "threw"]
                      /\ syncing' = SyncingAfterFirstSync
              /\ UNCHANGED remoteVars
    /\ UNCHANGED <<pre, localVars, settingVars, orphans, now>>

\* commitSync after the commit: resolutions are written, the save is not awaited
CommitAfter(i) ==
    /\ pc[i] = "c_after"
    /\ LET res == run[i].conflictResolutions
           resolved == {p \in FilePaths : res[p] # Undef}
           paths == Ordered(resolved)
           d == [data EXCEPT !.files = [p \in Paths |->
                    IF p \in resolved /\ data.files[p].present
                    THEN [data.files[p] EXCEPT !.lastModified = run[i].syncTime]
                    ELSE data.files[p]]]
       IN  /\ vaultFiles' = [p \in FilePaths |->
                                IF p \in resolved THEN res[p] ELSE vaultFiles[p]]
           /\ data' = d
           /\ inflight' = inflight \cup {d}
           /\ Log(i, [k \in 1..Len(paths) |-> <<"write", paths[k]>>]
                     \o << <<"save", MANIFEST>> >>)
    /\ pc' = [pc EXCEPT ![i] = IF run[i].kind = "sync" THEN "s_return"
                               ELSE "f_return"]
    /\ UNCHANGED <<syncing, run, pre, persisted, remoteVars, settingVars,
                   orphans, now>>

\* ------------------------------------------------------------- firstSync()
CallFirstSync(i) ==
    /\ MayCall(i)
    /\ now' = now + 1
    /\ IF FirstSyncAlreadyInProgress
       THEN /\ pc' = [pc EXCEPT ![i] = "rejected"]
            /\ run' = [run EXCEPT ![i].kind = "firstSync"]
            /\ UNCHANGED <<syncing, pre>>
       ELSE /\ syncing' = TRUE
            /\ pc' = [pc EXCEPT ![i] = "f_fetch"]
            /\ run' = [run EXCEPT ![i].kind = "firstSync"]
            /\ pre' = [pre EXCEPT ![i] = Stores]
    /\ UNCHANGED <<trace, localVars, remoteVars, settingVars, orphans>>

\* a throw of firstSyncImpl: firstSync's catch clears the guard and rethrows
FirstThrow(i, msg) ==
    /\ pc' = [pc EXCEPT ![i] = "threw"]
    /\ run' = [run EXCEPT ![i].err = msg]
    /\ syncing' = SyncingAfterFirstSync

\* variant: only the status of a repository just created means "empty"
IsEmptyRepoStatus_Only409(status) == status = 409

\* the status of a failed tree fetch that means "the repository is empty"
IsEmptyRepoStatus(status) == status = 409 \/ status = 404

\* firstSyncImpl: the first fetch of the remote tree
FirstFetch(i) ==
    /\ pc[i] = "f_fetch"
    /\ Log(i, << <<"getRepoContent", "">> >>)
    /\ \E status \in {remoteStatus, 403, 500} :
         IF status = 200
         THEN /\ run' = [run EXCEPT ![i].files = RepoFiles,
                                   ![i].status = status]
              /\ pc' = [pc EXCEPT ![i] = "f_decide"]
              /\ UNCHANGED syncing
         ELSE IF IsEmptyRepoStatus(status)
         THEN /\ run' = [run EXCEPT ![i].repositoryIsEmpty = TRUE,
                                   ![i].status = status]
              /\ pc' = [pc EXCEPT ![i] = "f_create"]
              /\ UNCHANGED syncing
         ELSE /\ pc' = [pc EXCEPT ![i] = "threw"]
              /\ run' = [run EXCEPT ![i].err = "Failed to get repo content",
                                   ![i].status = status]
              /\ syncing' = SyncingAfterFirstSync
    /\ UNCHANGED <<pre, localVars, remoteVars, settingVars, orphans, now>>

\* variant: firstSyncImpl that goes on to the re-fetch without creating the manifest
FirstCreate_Skipped(i) ==
    /\ pc[i] = "f_create"
    /\ pc' = [pc EXCEPT ![i] = "f_refetch"]
    /\ UNCHANGED <<syncing, run, trace, pre, localVars, remoteVars, settingVars,
                   orphans, now>>

\* firstSyncImpl on an empty repository: the manifest is created by itself
FirstCreate(i) ==
    /\ pc[i] = "f_create"
    /\ Log(i, << <<"createFile", MANIFEST>> >>)
    /\ \E ok \in BOOLEAN :
         IF ok
         THEN /\ remoteStatus' = 200
              /\ remoteHasManifest' = TRUE
              /\ remoteManifest' = persisted
              /\ pc' = [pc EXCEPT ![i] = "f_refetch"]
              /\ UNCHANGED <<syncing, run, remoteTree>>
         ELSE /\ FirstThrow(i, "Failed to create file")
              /\ UNCHANGED remoteVars
    /\ UNCHANGED <<pre, localVars, settingVars, orphans, now>>

\* firstSyncImpl on an empty repository: the tree is fetched again
FirstRefetch(i) ==
    /\ pc[i] = "f_refetch"
    /\ Log(i, << <<"getRepoContent", "">> >>)
    /\ \E ok \in BOOLEAN :
         IF ok /\ remoteStatus = 200
         THEN /\ run' = [run EXCEPT ![i].files = RepoFiles]
              /\ pc' = [pc EXCEPT ![i] = "f_decide"]
              /\ UNCHANGED syncing
         ELSE FirstThrow(i, "Failed to get repo content")
    /\ UNCHANGED <<pre, localVars, remoteVars, settingVars, orphans, now>>

\* vaultIsEmpty: what vault.adapter.list(root) returns, and the test made of it
RootFiles == {p \in FilePaths : TopFolder(p) = "" /\ vaultFiles[p] # NoFile}
RootFolders ==
    {configDir} \cup {TopFolder(p) : p \in {q \in FilePaths :
                          TopFolder(q) # "" /\ vaultFiles[q] # NoFile}}
vaultIsEmpty ==
    \/ Cardinality(RootFiles) = 0
    \/ Cardinality({f \in RootFolders : f # configDir}) = 0

\* variant: firstSyncFromLocal without the filter on deleted records
LocalUploads_WithTombstones == {p \in Paths : data.files[p].present}
\* the metadata paths firstSyncFromLocal uploads
LocalUploads == {p \in Paths : data.files[p].present /\ ~data.files[p].deleted}

\* the metadata paths firstSyncFromRemote uploads: those the tree does not hold
RemoteUploads(files, d) == {p \in Paths : d.files[p].present /\ files[p] = Undef}

\* newTreeFiles of the bootstrap: the remote tree, then the uploads with content
FirstTree(files, uploads, vf) ==
    [p \in Paths |->
        IF p \in uploads
        THEN ContentItem(IF p = MANIFEST THEN ManifestText ELSE vf[p])
        ELSE IF files[p] # Undef THEN TreeItem(files[p])
        ELSE NoItem]

\* reading the content of an upload throws when the file does not exist
ReadThrows(uploads, vf) == \E p \in uploads : p # MANIFEST /\ vf[p] = NoFile

\* firstSyncImpl: the choice between failing, firstSyncFromLocal (up to its
\* commitSync) and firstSyncFromRemote
FirstDecide(i) ==
    /\ pc[i] = "f_decide"
    /\ IF ~run[i].repositoryIsEmpty /\ ~vaultIsEmpty
       THEN FirstThrow(i, "Both remote and local have files, can't sync")
       ELSE IF run[i].repositoryIsEmpty
       THEN IF ReadThrows(LocalUploads, vaultFiles)
            THEN FirstThrow(i, "Failed to read file")
            ELSE /\ run' = [run EXCEPT
                              ![i].manifestRead = persisted,
                              ![i].newTreeFiles =
                                  FirstTree(run[i].files, LocalUploads, vaultFiles)]
                 /\ pc' = [pc EXCEPT ![i] = "c_begin"]
                 /\ UNCHANGED syncing
       ELSE /\ pc' = [pc EXCEPT ![i] = "f_archive"]
            /\ UNCHANGED <<syncing, run>>
    /\ UNCHANGED <<trace, pre, localVars, remoteVars, settingVars, orphans, now>>

\* firstSyncFromRemote: the download of the repository archive
FirstArchive(i) ==
    /\ pc[i] = "f_archive"
    /\ Log(i, << <<"downloadRepositoryArchive", "">> >>)
    /\ \E ok \in BOOLEAN :
         IF ok
         THEN /\ run' = [run EXCEPT ![i].archive = remoteTree]
              /\ pc' = [pc EXCEPT ![i] = "f_extract"]
              /\ UNCHANGED syncing
         ELSE FirstThrow(i, "Failed to download zip archive")
    /\ UNCHANGED <<pre, localVars, remoteVars, settingVars, orphans, now>>

\* the archive entries firstSyncFromRemote skips because of the config setting
SkippedConfig(targetPath) ==
    /\ syncConfigDir
    /\ StartsWithConfigDir(targetPath)
    /\ targetPath # MANIFEST

\* the archive entries firstSyncFromRemote writes to the vault
Extracted(archive) ==
    {p \in FilePaths : /\ archive[p] # NoFile
                       /\ ~SkippedConfig(p)
                       /\ p \notin ignored}

\* firstSyncFromRemote: the extraction of the archive, then the tree it commits
FirstExtract(i) ==
    /\ pc[i] = "f_extract"
    /\ LET files == run[i].files
           written == Extracted(run[i].archive)
           paths == Ordered(written)
           d == [data EXCEPT !.files = [p \in Paths |->
                    IF p \in written /\ files[p] # Undef
                    THEN Rec(files[p], now)
                    ELSE data.files[p]]]
           vf == [p \in FilePaths |->
                    IF p \in written THEN run[i].archive[p] ELSE vaultFiles[p]]
           saved == IF \E p \in written : files[p] # Undef THEN d ELSE persisted
       IN  /\ vaultFiles' = vf
           /\ data' = d
           /\ persisted' = saved
           /\ Log(i, [k \in 1..Len(paths) |-> <<"writeBinary", paths[k]>>])
           /\ IF ReadThrows(RemoteUploads(files, d), vf)
              THEN FirstThrow(i, "Failed to read file")
              ELSE /\ run' = [run EXCEPT
                                ![i].manifestRead = saved,
                                ![i].newTreeFiles =
                                    FirstTree(files, RemoteUploads(files, d), vf)]
                   /\ pc' = [pc EXCEPT ![i] = "c_begin"]
                   /\ UNCHANGED syncing
    /\ UNCHANGED <<pre, inflight, remoteVars, settingVars, orphans, now>>

\* firstSync returns
FirstReturn(i) ==
    /\ pc[i] = "f_return"
    /\ syncing' = SyncingAfterFirstSync
    /\ pc' = [pc EXCEPT ![i] = "ok"]
    /\ UNCHANGED <<run, trace, pre, localVars, remoteVars, settingVars,
                   orphans, now>>

\* a vault that has never synced: metadata as loadMetadata left it, files
\* deleted since then tombstoned; a repository that is bare, or holds a tree
\* without the manifest marker
LocalScenes ==
    { Scene(NoFile, NoRec, NoRec, NoFile),
      Scene(1, Rec(NullSha, 1), NoRec, NoFile),
      Scene(NoFile, Tomb(NullSha, 1, 2), NoRec, NoFile),
      \* deleted, then created again while the plugin was not running
      Scene(1, Tomb(NullSha, 1, 2), NoRec, NoFile),
      \* never tracked: ignored, or in a config directory that is not synced
      Scene(1, NoRec, NoRec, NoFile) }

InitFirst ==
    /\ InitRuns
    /\ syncConfigDir \in BOOLEAN
    /\ conflictHandling = "ask"
    /\ ignored \in {{}, {NoteB}}
    /\ \E sc \in [FilePaths -> LocalScenes] :
         /\ \A p \in FilePaths :
               \* a file is untracked only if ignored or in an unsynced config dir
               (sc[p].vf # NoFile /\ ~sc[p].l.present)
                  <=> (sc[p].vf # NoFile /\
                         (p \in ignored \/ (p = ConfigFile /\ ~syncConfigDir)))
         /\ vaultFiles = [p \in FilePaths |-> sc[p].vf]
         /\ data = Snapshot(0, [p \in Paths |->
                      IF p = MANIFEST THEN Rec(NullSha, 1) ELSE sc[p].l])
    /\ persisted = data
    /\ remoteStatus \in {200, 404, 409}
    /\ remoteTree \in [FilePaths -> {NoFile, 2}]
    /\ remoteStatus # 200 => \A p \in FilePaths : remoteTree[p] = NoFile
    /\ remoteHasManifest = FALSE
    /\ remoteManifest = EmptySnapshot
    /\ manifestWire = ApiWire
    /\ pre = [i \in Calls |-> Stores]

\* ------------------------------------------ the config directory in metadata
\* the files found by the walk of vault.adapter.list from the config directory
ConfigDirFiles == {p \in Paths : StartsWithConfigDir(p) /\ FileExists(p)}

\* addConfigDirToMetadata, as invocation i: a fresh record for every file of
\* the config directory; the save is not awaited
addConfigDirToMetadata(i) ==
    /\ MayCall(i)
    /\ now' = now + 1
    /\ pc' = [pc EXCEPT ![i] = "ok"]
    /\ run' = [run EXCEPT ![i].kind = "addConfigDir"]
    /\ data' = [data EXCEPT !.files =
                   [p \in Paths |-> IF p \in ConfigDirFiles
                                    THEN Rec(NullSha, now')
                                    ELSE data.files[p]]]
    /\ inflight' = inflight \cup {data'}
    /\ UNCHANGED <<syncing, trace, pre, persisted, vaultFiles,
                   remoteVars, settingVars, orphans>>

\* removeConfigDirFromMetadata, as invocation i: the record of every file of
\* the config directory but the manifest marker is deleted; the save is not
\* awaited
removeConfigDirFromMetadata(i) ==
    /\ MayCall(i)
    /\ now' = now + 1
    /\ pc' = [pc EXCEPT ![i] = "ok"]
    /\ run' = [run EXCEPT ![i].kind = "removeConfigDir"]
    /\ data' = [data EXCEPT !.files =
                   [p \in Paths |-> IF p \in ConfigDirFiles /\ p # MANIFEST
                                    THEN NoRec
                                    ELSE data.files[p]]]
    /\ inflight' = inflight \cup {data'}
    /\ UNCHANGED <<syncing, trace, pre, persisted, vaultFiles,
                   remoteVars, settingVars, orphans>>

\* -------------------------------------------------- the periodic sync timer
TimerNow == Timer(syncIntervalId, intervals, timerIds)

\* the three variables take the value t
TimerBecomes(t) ==
    /\ syncIntervalId' = t.id
    /\ intervals' = t.set
    /\ timerIds' = t.issued

runVars == <<syncing, pc, run, trace, pre, localVars, remoteVars,
             syncConfigDir, conflictHandling, ignored, manifestWire,
             orphans, now>>

startSyncInterval ==
    /\ IF StartRaises(TimerNow)
       THEN /\ timerCall' = TimerCall("start", TRUE)
            /\ UNCHANGED <<syncIntervalId, intervals, timerIds>>
       ELSE /\ timerIds < MaxTimers
            /\ timerCall' = TimerCall("start", FALSE)
            /\ TimerBecomes(Started(TimerNow))
    /\ UNCHANGED runVars

stopSyncInterval ==
    /\ timerCall' = TimerCall("stop", FALSE)
    /\ TimerBecomes(Stopped(TimerNow))
    /\ UNCHANGED runVars

\* restartSyncInterval: stopSyncInterval, then startSyncInterval
restartSyncInterval ==
    /\ timerIds < MaxTimers
    /\ LET t == Stopped(TimerNow)
       IN  IF StartRaises(t)
           THEN /\ timerCall' = TimerCall("restart", TRUE)
                /\ TimerBecomes(t)
           ELSE /\ timerCall' = TimerCall("restart", FALSE)
                /\ TimerBecomes(Started(t))
    /\ UNCHANGED runVars

\* a registered interval fires: its callback calls sync()
IntervalTick(i) ==
    /\ intervals # {}
    /\ CallSync(i)

\* ------------------------------------------------------------ specifications
SyncSteps(i) ==
    \/ SyncFetch(i) \/ SyncManifest(i) \/ SyncFindConflicts(i) \/ SyncResolve(i)
    \/ SyncActions(i) \/ SyncApply(i) \/ SyncFinally(i)

FirstSteps(i) ==
    \/ FirstFetch(i) \/ FirstCreate(i) \/ FirstRefetch(i) \/ FirstDecide(i)
    \/ FirstArchive(i) \/ FirstExtract(i) \/ FirstReturn(i)

CommitSteps(i) == CommitBegin(i) \/ CommitSend(i) \/ CommitAfter(i)

NextSync ==
    \/ \E i \in Calls : CallSync(i) \/ SyncSteps(i) \/ CommitSteps(i)
    \/ OrphanStep
    \/ SaveFlush

NextFirst ==
    \/ \E i \in Calls : CallFirstSync(i) \/ FirstSteps(i) \/ CommitSteps(i)
    \/ SaveFlush

SpecSync == InitSync /\ [][NextSync]_vars
SpecFirst == InitFirst /\ [][NextFirst]_vars

\* sync() under every conflict policy, on the vaults of InitSync where only
\* one note varies: the other is a new remote file, the config file is tracked
InitConflict ==
    /\ InitSync
    /\ syncConfigDir
    /\ remoteTree[NoteB] # NoFile
    /\ data.files[ConfigFile].present

SpecConflict == InitConflict /\ [][NextSync]_vars

\* sync() on a few of the vaults of InitSync, the manifest served in every
\* encoding
InitParse ==
    /\ SyncedVault
    /\ manifestWire \in Wires
    /\ syncConfigDir
    /\ conflictHandling = "ask"
    /\ remoteTree[NoteB] # NoFile
    /\ data.files[ConfigFile].present

SpecParse == InitParse /\ [][NextSync]_vars

\* sync() and the two operations on the config directory's records, on the
\* vaults of InitSync where only the config file varies
InitSettings ==
    /\ InitSync
    /\ conflictHandling = "ask"
    /\ vaultFiles[NoteA] = 1 /\ data.files[NoteA] = Rec(Hash(1), 1)
    /\ remoteTree[NoteA] = 1 /\ remoteManifest.files[NoteA] = Rec(Hash(1), 1)
    /\ remoteTree[NoteB] # NoFile

NextSettings ==
    \/ NextSync
    \/ \E i \in Calls : addConfigDirToMetadata(i)
    \/ \E i \in Calls : removeConfigDirFromMetadata(i)

SpecSettings == InitSettings /\ [][NextSettings]_vars

\* the sync interval, whose callback is the only caller of sync(), on one
\* vault of InitSync: two new remote files and a note edited on both sides
InitInterval ==
    /\ InitSync
    /\ syncConfigDir
    /\ conflictHandling = "ask"
    /\ vaultFiles[NoteA] = 2 /\ data.files[NoteA] = Rec(Hash(1), 2)
    /\ remoteTree[NoteA] = 0 /\ remoteManifest.files[NoteA] = Rec(Hash(0), 2)
    /\ ~data.files[NoteB].present /\ remoteTree[NoteB] # NoFile
    /\ ~data.files[ConfigFile].present /\ remoteTree[ConfigFile] # NoFile

NextInterval ==
    \/ startSyncInterval
    \/ stopSyncInterval
    \/ restartSyncInterval
    \/ \E i \in 1..MaxTicks :
          IntervalTick(i) \/ SyncSteps(i) \/ CommitSteps(i)
    \/ OrphanStep
    \/ SaveFlush

SpecInterval == InitInterval /\ [][NextInterval]_vars

\* both entry points, on a few of the vaults of InitSync and InitFirst
Init ==
    \/ /\ InitSync
       /\ syncConfigDir
       /\ conflictHandling = "ask"
       /\ remoteTree[NoteB] # NoFile
       /\ data.files[ConfigFile].present
    \/ /\ InitFirst
       /\ ~syncConfigDir
       /\ ignored = {}
       /\ vaultFiles[ConfigFile] = NoFile
       /\ vaultFiles[NoteB] = NoFile
       /\ ~data.files[NoteB].present
       /\ remoteTree[ConfigFile] = NoFile
       /\ remoteTree[NoteB] = NoFile

Next ==
    \/ \E i \in Calls :
          \/ CallSync(i) \/ CallFirstSync(i)
          \/ SyncSteps(i) \/ FirstSteps(i) \/ CommitSteps(i)
    \/ OrphanStep
    \/ SaveFlush

Spec == Init /\ [][Next]_vars

\* ------------------------------------------------ the classifier on its own
\* findConflicts and determineSyncActions are public methods: they are applied
\* here to metadata drawn from bounded sets rather than to the states a run
\* reaches.  Timestamps are 1..MaxTime.
MaxTime == 3

Times == 1..MaxTime
\* hashes of the non-empty contents
Shas == {Hash(c) : c \in 1..MaxContent}

\* records a remote manifest can hold for a note
RemoteRecords ==
    {NoRec} \cup {Rec(sha, t) : sha \in Shas, t \in Times}
            \cup {Tomb(sha, 1, t) : sha \in Shas, t \in Times}

\* records the local metadata can hold for a note; sha is null until a file
\* has been uploaded or downloaded
LocalRecords ==
    {NoRec} \cup {Rec(sha, t) : sha \in Shas \cup {NullSha}, t \in Times}
            \cup {Tomb(sha, 1, t) : sha \in Shas \cup {NullSha}, t \in Times}

\* the config file: local file, local record, remote record
ConfigCases ==
    { Scene(1, NoRec, Rec(Hash(2), 2), 2),
      Scene(1, Rec(NullSha, 2), NoRec, NoFile),
      Scene(2, Rec(Hash(1), 1), Rec(Hash(1), 1), 1) }

\* the manifest's own record: on both sides, only remote, only local
ManifestCases ==
    { Scene(NoFile, Rec(NullSha, 1), Rec(Hash(1), 1), NoFile),
      Scene(NoFile, NoRec, Rec(Hash(1), 1), NoFile),
      Scene(NoFile, Rec(NullSha, 1), NoRec, NoFile) }

InitClassify ==
    /\ InitRuns
    /\ syncConfigDir \in BOOLEAN
    /\ conflictHandling = "ask"
    /\ ignored = {}
    /\ \E vf \in {NoFile} \cup (1..MaxContent), l \in LocalRecords,
          r \in RemoteRecords, c \in ConfigCases, m \in ManifestCases :
         /\ vaultFiles = [p \in FilePaths |->
                            IF p = NoteA THEN vf
                            ELSE IF p = ConfigFile THEN c.vf ELSE NoFile]
         /\ data = Snapshot(4, [p \in Paths |->
                      IF p = NoteA THEN l
                      ELSE IF p = ConfigFile THEN c.l
                      ELSE IF p = MANIFEST THEN m.l ELSE NoRec])
         /\ remoteManifest = Snapshot(4, [p \in Paths |->
                      IF p = NoteA THEN r
                      ELSE IF p = ConfigFile THEN c.r
                      ELSE IF p = MANIFEST THEN m.r ELSE NoRec])
         /\ remoteTree = [p \in FilePaths |->
                            IF p = ConfigFile THEN c.rt ELSE NoFile]
    /\ persisted = data
    /\ remoteStatus = 200
    /\ remoteHasManifest = TRUE
    /\ manifestWire = ApiWire
    /\ pre = [i \in Calls |-> Stores]

\* findConflicts(remoteMetadata.files): the result is kept in run[1].conflicts
ApplyFindConflicts ==
    /\ pc[1] = "idle"
    /\ pc' = [pc EXCEPT ![1] = "k_conflicts"]
    /\ run' = [run EXCEPT ![1].remoteMetadata = remoteManifest,
                          ![1].conflicts = findConflicts(remoteManifest.files)]
    /\ UNCHANGED <<syncing, trace, pre, localVars, remoteVars, settingVars,
                   orphans, now>>

\* determineSyncActions(remoteFiles, localFiles, conflictFiles): the argument
\* conflictFiles is kept in run[1].conflicts, the result in run[1].actions
ApplyDetermineSyncActions ==
    /\ pc[1] = "idle"
    /\ \E conflictFiles \in SUBSET {NoteA, ConfigFile} :
         run' = [run EXCEPT
                   ![1].remoteMetadata = remoteManifest,
                   ![1].conflicts = conflictFiles,
                   ![1].actions = determineSyncActions(remoteManifest.files,
                                                       data.files, conflictFiles)]
    /\ pc' = [pc EXCEPT ![1] = "k_actions"]
    /\ UNCHANGED <<syncing, trace, pre, localVars, remoteVars, settingVars,
                   orphans, now>>

NextClassify == ApplyFindConflicts \/ ApplyDetermineSyncActions

SpecClassify == InitClassify /\ [][NextClassify]_vars

\* ------------------------------------------------------------- observations
\* the I/O operations invocation i has made
Ops(i) == {trace[i][k] : k \in 1..Len(trace[i])}
\* the invocation has submitted its batch commit
Submitted(i) == <<"commitChanges", "">> \in Ops(i)
\* stores s hold a local file outside the config directory
LocalHasFiles(s) ==
    \E p \in FilePaths : ~StartsWithConfigDir(p) /\ s.vaultFiles[p] # NoFile
\* stores s hold a remote tree with at least one file
RemoteHasFiles(s) ==
    /\ s.remoteStatus = 200
    /\ (s.remoteHasManifest \/ \E p \in FilePaths : s.remoteTree[p] # NoFile)
\* the operations that write to the vault, the metadata file or the repository
WriteOps == {"writeBinary", "write", "remove", "save", "createFile", "commitChanges"}
\* the indices of the changes of invocation i that are about path p
ChangesOf(i, p) == {k \in 1..Len(run[i].changes) : run[i].changes[k].path = p}

\* ------------------------------------------------------------------ claims
\* C1: at most one run is active at any time; a call made while a run is in
\* progress changes no store (no remote request, no file write, no metadata
\* mutation), raises no error, and is never resumed later.
C1_SingleActiveRun ==
    /\ [](/\ Cardinality({i \in Calls : Active(i)}) <= 1
          /\ \A i \in Calls : pc[i] = "rejected" =>
                /\ trace[i] = <<>>
                /\ run[i].err = "")
    /\ [][\A i \in Calls :
            /\ (pc[i] = "idle" /\ pc'[i] = "rejected") =>
                  /\ \E j \in Calls : Active(j)
                  /\ UNCHANGED <<syncing, localVars, remoteVars>>
            /\ pc[i] = "rejected" => pc'[i] = "rejected"]_vars

\* a call was turned away while a run of the other call was doing its I/O
C1_Witness ==
    \E i, j \in Calls :
        /\ pc[j] = "rejected"
        /\ Active(i)
        /\ Len(trace[i]) > 0

\* C2: a run that acquired the guard ends with the guard cleared on every exit
\* path (success, nothing to sync, thrown error), so a call made after a run
\* ended is never turned away because of that run.
C2_GuardReleased ==
    /\ []((\A i \in Calls : ~Active(i)) => ~syncing)
    /\ [][\A i \in Calls :
            /\ (Active(i) /\ ~Active(i)') => ~syncing'
            /\ (pc[i] = "idle" /\ pc'[i] # "idle" /\ \A j \in Calls : ~Active(j))
                  => pc'[i] # "rejected"]_vars

\* runs ended on each exit path, and the call after a run that threw got the guard
C2_Witness ==
    \E i, j \in Calls :
        /\ j = i + 1
        /\ pc[i] \in {"threw", "failed"}
        /\ pc[j] \in {"ok", "nothing"}
        /\ ~syncing

\* C3: when a sync() run fails, at whatever step, the metadata snapshot, the
\* local files and the remote tree are what they were when the run started.
\* "s_catch" is the run at the moment its failure is caught.
C3_AllOrNothing ==
    \A i \in Calls :
        (run[i].kind = "sync" /\ pc[i] = "s_catch") =>
            /\ data = pre[i].data
            /\ vaultFiles = pre[i].vaultFiles
            /\ remoteTree = pre[i].remoteTree
            /\ remoteManifest = pre[i].remoteManifest

\* C4: after a successful sync() run, the next sync() run, made with no change
\* in between, computes no action and submits no commit.
C4_Idempotent ==
    \A i, j \in Calls :
        (/\ j = i + 1
         /\ run[i].kind = "sync" /\ pc[i] = "ok"
         /\ run[j].kind = "sync") =>
            /\ run[j].actions = {}
            /\ ~Submitted(j)

\* C5: firstSync() called with local files outside the config directory and
\* with files in the remote repository fails, having written nothing locally
\* and committed nothing remotely.
C5_BothPopulatedFails ==
    \A i \in Calls :
        (/\ run[i].kind = "firstSync"
         /\ pc[i] \notin {"idle", "rejected"}
         /\ LocalHasFiles(pre[i])
         /\ RemoteHasFiles(pre[i])) =>
            /\ pc[i] \notin {"f_return", "ok"}
            /\ \A op \in Ops(i) : op[1] \notin WriteOps

\* C6: firstSync() called with no file in the remote repository, or with no
\* local file outside the config directory, does not fail with the error
\* "Both remote and local have files".
C6_NoBothErrorWhenOneSideEmpty ==
    \A i \in Calls :
        (/\ run[i].kind = "firstSync"
         /\ pc[i] \notin {"idle", "rejected"}
         /\ (~RemoteHasFiles(pre[i]) \/ ~LocalHasFiles(pre[i]))) =>
            run[i].err # "Both remote and local have files, can't sync"

\* C7: firstSync() started on an empty local vault and a populated remote has,
\* when it completes, every non-ignored remote path as a local file whose hash
\* is the hash of the remote tree, recorded in the path's record, and lastSync
\* set. "f_return" is the run at the moment firstSyncImpl has completed.
C7_BootstrapSymmetry ==
    \A i \in Calls :
        (/\ run[i].kind = "firstSync"
         /\ pc[i] = "f_return"
         /\ ~LocalHasFiles(pre[i])
         /\ RemoteHasFiles(pre[i])) =>
            /\ data.lastSync = run[i].syncTime
            /\ data.lastSync > 0
            /\ \A p \in FilePaths :
                  (/\ pre[i].remoteTree[p] # NoFile
                   /\ p \notin ignored
                   /\ (StartsWithConfigDir(p) => syncConfigDir)) =>
                      /\ vaultFiles[p] # NoFile
                      /\ Hash(vaultFiles[p]) = Hash(pre[i].remoteTree[p])
                      /\ data.files[p].present
                      /\ data.files[p].sha = Hash(pre[i].remoteTree[p])

\* C8: in firstSync() from a populated remote, with config-directory sync
\* disabled no archive entry under the config directory other than the manifest
\* is written to the vault; with it enabled, once the archive is extracted,
\* every such entry that is not ignored has been written.
C8_ConfigOptOutHonoured ==
    \A i \in Calls :
        run[i].kind = "firstSync" =>
            LET written == {p \in FilePaths : <<"writeBinary", p>> \in Ops(i)}
            IN  /\ ~syncConfigDir =>
                      \A p \in written : ~StartsWithConfigDir(p) \/ p = MANIFEST
                /\ (syncConfigDir /\ pc[i] # "f_extract") =>
                      \A p \in FilePaths :
                          (/\ StartsWithConfigDir(p)
                           /\ run[i].archive[p] # NoFile
                           /\ p \notin ignored) => p \in written

\* C9: on an empty remote, the batch firstSync() commits holds a create or an
\* update for every path whose metadata record is not tombstoned, and no
\* change for a path whose record is tombstoned.
C9_UploadsLiveRecordsOnly ==
    \A i \in Calls :
        (run[i].kind = "firstSync" /\ run[i].repositoryIsEmpty /\ Submitted(i)) =>
            \A p \in Paths :
                LET rec == pre[i].data.files[p]
                IN  /\ (rec.present /\ ~rec.deleted) =>
                          \E k \in ChangesOf(i, p) :
                              run[i].changes[k].action \in {"create", "update"}
                    /\ (rec.present /\ rec.deleted) => ChangesOf(i, p) = {}

\* a batch was committed from metadata with a live record and with a tombstone
\* whose file exists
C9_Witness ==
    \E i \in Calls :
        /\ run[i].kind = "firstSync" /\ run[i].repositoryIsEmpty /\ Submitted(i)
        /\ \E p, q \in FilePaths :
              /\ pre[i].data.files[p].present /\ ~pre[i].data.files[p].deleted
              /\ pre[i].data.files[q].present /\ pre[i].data.files[q].deleted
              /\ pre[i].vaultFiles[q] # NoFile

\* C10: on an empty remote, the first remote write of firstSync() is the
\* creation of the manifest alone, made once; the tree is fetched again only
\* after it, and the batch commit is submitted only after both.
C10_ManifestCreatedFirst ==
    \A i \in Calls :
        (run[i].kind = "firstSync" /\ run[i].repositoryIsEmpty) =>
            LET t == trace[i]
                writes == {k \in 1..Len(t) : t[k][1] \in {"createFile", "commitChanges"}}
                creates == {k \in 1..Len(t) : t[k] = <<"createFile", MANIFEST>>}
                fetches == {k \in 2..Len(t) : t[k][1] = "getRepoContent"}
                commits == {k \in 1..Len(t) : t[k][1] = "commitChanges"}
            IN  /\ \A k \in writes : (\A j \in writes : k <= j) => k \in creates
                /\ Cardinality(creates) <= 1
                /\ \A f \in fetches : \E c \in creates : c < f
                /\ \A m \in commits :
                      \E c \in creates, f \in fetches : c < f /\ f < m

\* a bootstrap on an empty remote ran to its end
C10_Witness ==
    \E i \in Calls :
        /\ run[i].kind = "firstSync" /\ run[i].repositoryIsEmpty
        /\ pc[i] = "ok"
        /\ Submitted(i)

\* ------------------------------------------------- claims on the classifier
\* the arguments and the result of the application made in SpecClassify
ArgRemote == run[1].remoteMetadata.files
ArgLocal == data.files
ArgExcluded == run[1].conflicts
ActionsOn(p) == {a \in run[1].actions : a.filePath = p}
\* the path is not subject to the config-directory filter
Unfiltered(p) == syncConfigDir \/ ~StartsWithConfigDir(p)

C12_RemoteDeleteTieBreak ==
    pc[1] = "k_actions" =>
        \A p \in FilePaths :
            ( /\ ArgRemote[p].present /\ ArgRemote[p].deleted
              /\ ArgLocal[p].present /\ ~ArgLocal[p].deleted
              /\ p \notin ArgExcluded
              /\ Unfiltered(p) ) =>
                /\ ArgRemote[p].deletedAt > ArgLocal[p].lastModified =>
                       ActionsOn(p) = {Action("delete_local", p)}
                /\ ArgLocal[p].lastModified > ArgRemote[p].deletedAt =>
                       ActionsOn(p) = {Action("upload", p)}

\* C13: for a path whose local record is tombstoned with deletedAt t1 and whose
\* remote record is live with lastModified t2, determineSyncActions emits
\* exactly one action for the path: delete_remote if t1 > t2, download if
\* t2 > t1.
C13_LocalDeleteTieBreak ==
    pc[1] = "k_actions" =>
        \A p \in FilePaths :
            ( /\ ArgLocal[p].present /\ ArgLocal[p].deleted
              /\ ArgRemote[p].present /\ ~ArgRemote[p].deleted
              /\ p \notin ArgExcluded
              /\ Unfiltered(p) ) =>
                /\ ArgLocal[p].deletedAt > ArgRemote[p].lastModified =>
                       ActionsOn(p) = {Action("delete_remote", p)}
                /\ ArgRemote[p].lastModified > ArgLocal[p].deletedAt =>
                       ActionsOn(p) = {Action("download", p)}

\* a path the classifier treats in its loop over the paths of both sides: in
\* both metadata, not the manifest, not in the exclusion list
Classified(p) ==
    /\ p \in FilePaths
    /\ ArgRemote[p].present /\ ArgLocal[p].present
    /\ p \notin ArgExcluded

\* C14: for a non-conflicting path present on both sides, tombstoned on
\* neither, whose remote hash differs from the freshly computed local hash,
\* determineSyncActions emits exactly one action: upload if the fresh local
\* hash differs from the cached local hash, otherwise download.
C14_HashDiffDirection ==
    pc[1] = "k_actions" =>
        \A p \in FilePaths :
            ( /\ Classified(p) /\ Unfiltered(p)
              /\ ~ArgRemote[p].deleted /\ ~ArgLocal[p].deleted
              /\ ArgRemote[p].sha # calculateSHA(p) ) =>
                ActionsOn(p) =
                    {Action(IF calculateSHA(p) # ArgLocal[p].sha
                            THEN "upload" ELSE "download", p)}

\* both directions happen: a path uploaded because the local file changed, and
\* a path downloaded because only the remote hash moved
C14_Witness ==
    /\ pc[1] = "k_actions"
    /\ Classified(NoteA) /\ Classified(ConfigFile) /\ syncConfigDir
    /\ ~ArgRemote[NoteA].deleted /\ ~ArgLocal[NoteA].deleted
    /\ ~ArgRemote[ConfigFile].deleted /\ ~ArgLocal[ConfigFile].deleted
    /\ calculateSHA(NoteA) = ArgLocal[NoteA].sha
    /\ ArgRemote[NoteA].sha # calculateSHA(NoteA)
    /\ ActionsOn(NoteA) = {Action("download", NoteA)}
    /\ calculateSHA(ConfigFile) # ArgLocal[ConfigFile].sha
    /\ ArgRemote[ConfigFile].sha = ArgLocal[ConfigFile].sha
    /\ ActionsOn(ConfigFile) = {Action("upload", ConfigFile)}

\* C15: for a path present on both sides, determineSyncActions emits no action
\* when both records are tombstoned, and no action when the remote record's
\* hash equals the freshly computed hash of the local file, whatever the
\* cached hash and the timestamps are.
C15_NoOpCases ==
    pc[1] = "k_actions" =>
        \A p \in Paths :
            ( /\ ArgRemote[p].present /\ ArgLocal[p].present
              /\ \/ ArgRemote[p].deleted /\ ArgLocal[p].deleted
                 \/ ArgRemote[p].sha = calculateSHA(p) ) =>
                ActionsOn(p) = {}

\* the remote hash equals the fresh local hash while the cached hash is stale
\* and the remote record is a later tombstone: no action
C15_Witness ==
    /\ pc[1] = "k_actions"
    /\ Classified(NoteA)
    /\ ArgRemote[NoteA].deleted /\ ~ArgLocal[NoteA].deleted
    /\ ArgRemote[NoteA].deletedAt > ArgLocal[NoteA].lastModified
    /\ ArgRemote[NoteA].sha = calculateSHA(NoteA)
    /\ ArgLocal[NoteA].sha # calculateSHA(NoteA)
    /\ ActionsOn(NoteA) = {}

\* C16: for a path present on only one side, determineSyncActions emits
\* download when it is only in the remote metadata and not tombstoned, upload
\* when it is only in the local metadata and not tombstoned, and no action at
\* all when the only record is a tombstone.
C16_OneSided ==
    pc[1] = "k_actions" =>
        \A p \in Paths :
            /\ ( /\ ArgRemote[p].present /\ ~ArgLocal[p].present
                 /\ ~ArgRemote[p].deleted
                 /\ (Unfiltered(p) \/ p = MANIFEST) ) =>
                    ActionsOn(p) = {Action("download", p)}
            /\ ( /\ ArgLocal[p].present /\ ~ArgRemote[p].present
                 /\ ~ArgLocal[p].deleted
                 /\ (Unfiltered(p) \/ p = MANIFEST) ) =>
                    ActionsOn(p) = {Action("upload", p)}
            /\ ( \/ /\ ArgRemote[p].present /\ ~ArgLocal[p].present
                    /\ ArgRemote[p].deleted
                 \/ /\ ArgLocal[p].present /\ ~ArgRemote[p].present
                    /\ ArgLocal[p].deleted ) =>
                    ActionsOn(p) = {}

\* a lone remote tombstone gives nothing while a lone live local record is
\* uploaded, in one application
C16_Witness ==
    /\ pc[1] = "k_actions"
    /\ syncConfigDir
    /\ ArgRemote[NoteA].present /\ ~ArgLocal[NoteA].present
    /\ ArgRemote[NoteA].deleted
    /\ ActionsOn(NoteA) = {}
    /\ ArgLocal[ConfigFile].present /\ ~ArgRemote[ConfigFile].present
    /\ ~ArgLocal[ConfigFile].deleted
    /\ ActionsOn(ConfigFile) = {Action("upload", ConfigFile)}

\* C17: the manifest marker never produces an action: for every remote
\* metadata, local metadata and exclusion list, including a manifest record
\* present on only one side, no action returned by determineSyncActions has
\* the manifest path.
C17_ManifestNeverActs ==
    pc[1] = "k_actions" => ActionsOn(MANIFEST) = {}

\* C18: when config-directory sync is disabled, determineSyncActions returns no
\* action on a path under the config directory except actions on the manifest
\* path, and keeps every other action; when it is enabled, no action is
\* filtered out.
C18_ConfigDirFilter ==
    pc[1] = "k_actions" =>
        LET all == ClassifiedActions(ArgRemote, ArgLocal, ArgExcluded)
        IN  /\ ~syncConfigDir =>
                /\ \A a \in run[1].actions :
                      ~StartsWithConfigDir(a.filePath) \/ a.filePath = MANIFEST
                /\ \A a \in all :
                      (~StartsWithConfigDir(a.filePath) \/ a.filePath = MANIFEST)
                          => a \in run[1].actions
            /\ syncConfigDir => run[1].actions = all

\* sync of the config directory is disabled, the loops produced an action on
\* the config file, on the manifest and on the note, and only the last two
\* are returned
C18_Witness ==
    /\ pc[1] = "k_actions"
    /\ ~syncConfigDir
    /\ \E a \in ClassifiedActions(ArgRemote, ArgLocal, ArgExcluded) :
          a.filePath = ConfigFile
    /\ ActionsOn(ConfigFile) = {}
    /\ ActionsOn(MANIFEST) # {}
    /\ ActionsOn(NoteA) # {}

\* sync of the config directory is enabled and an action on the config file
\* is returned
C18_WitnessEnabled ==
    /\ pc[1] = "k_actions"
    /\ syncConfigDir
    /\ ActionsOn(ConfigFile) # {}

\* ------------------------------------------ claims on the action list of sync
\* the run has built its final action list
HasActionList(i) ==
    /\ run[i].kind = "sync"
    /\ pc[i] \notin {"s_fetch", "s_manifest", "s_conflicts", "s_resolve",
                     "s_actions"}

\* C19: in every sync() run the final action list (classifier actions and
\* conflict actions) has at most one action per path: no path is both
\* excluded as a conflict and classified, and no path receives two different
\* action kinds.
C19_OneActionPerPath ==
    \A i \in 1..MaxCalls :
        HasActionList(i) =>
            /\ \A a, b \in run[i].actions : a.filePath = b.filePath => a = b
            /\ run[i].actionsLength =
                   Cardinality({a.filePath : a \in run[i].actions})

\* a run whose list holds the upload of a resolved conflict beside a
\* classified action on another path
C19_Witness ==
    \E i \in 1..MaxCalls :
        /\ HasActionList(i)
        /\ \E p \in run[i].conflicts :
              /\ run[i].conflictResolutions[p] # Undef
              /\ Action("upload", p) \in run[i].actions
        /\ \E a \in run[i].actions : a.filePath \notin run[i].conflicts

\* ------------------------------------------------- claims on the batch commit
\* the last change of the batch a run is about to submit
FinalChange(i) == run[i].changes[Len(run[i].changes)]
\* the changes of the batch before the last one
EarlierChanges(i) ==
    {run[i].changes[k] : k \in 1..(Len(run[i].changes) - 1)}

ManifestAsBuilt(i) ==
    /\ Len(run[i].changes) > 0
    /\ FinalChange(i).path = MANIFEST
    /\ FinalChange(i).manifest.lastSync = data.lastSync
    /\ \A p \in FilePaths : FinalChange(i).manifest.files[p] = data.files[p]
    /\ \A c \in EarlierChanges(i) :
          c.path # MANIFEST =>
              LET rec == FinalChange(i).manifest.files[c.path]
              IN  IF c.action = "delete"
                  THEN rec.present /\ rec.deleted
                       /\ rec.deletedAt = run[i].syncTime
                  ELSE rec.present /\ rec.sha = calculateSHA(c.path)

Count(i, op) == Cardinality({k \in 1..Len(trace[i]) : trace[i][k][1] = op})
\* the actions of a kind in the final list of invocation i
ActionsOfType(i, t) == {a \in run[i].actions : a.type = t}
\* the batch of invocation i holds a change of path p with one of the actions
HasChange(i, p, kinds) ==
    \E k \in ChangesOf(i, p) : run[i].changes[k].action \in kinds

\* C21: a sync() run submits its remote changes in at most one batch-commit
\* call, and that call carries every upload and every delete_remote decided in
\* the run; no upload or remote delete is sent through a separate request.
C21_SingleBatch ==
    \A i \in Calls :
        run[i].kind = "sync" =>
            /\ Count(i, "commitChanges") <= 1
            /\ Count(i, "createFile") = 0
            /\ Submitted(i) =>
                  /\ \A a \in ActionsOfType(i, "upload") :
                        HasChange(i, a.filePath, {"create", "update"})
                  /\ \A a \in ActionsOfType(i, "delete_remote") :
                        HasChange(i, a.filePath, {"delete"})

\* a sync() run has submitted a batch for a list with an upload and a remote
\* delete
C21_Witness ==
    \E i \in Calls :
        /\ run[i].kind = "sync" /\ Submitted(i)
        /\ ActionsOfType(i, "upload") # {}
        /\ ActionsOfType(i, "delete_remote") # {}

\* C22: in the batch change list, an uploaded path that already exists in the
\* remote tree with a different hash is submitted with action update, and an
\* uploaded path that does not exist in the remote tree is submitted with
\* action create.
C22_CreateOrUpdate ==
    \A i \in Calls :
        pc[i] = "c_commit" =>
            \A k \in 1..Len(run[i].changes) :
                LET c == run[i].changes[k]
                IN  (c.path # MANIFEST /\ c.action # "delete") =>
                        /\ ( /\ run[i].files[c.path] # Undef
                             /\ run[i].files[c.path] # Hash(c.content) )
                               => c.action = "update"
                        /\ run[i].files[c.path] = Undef => c.action = "create"

\* the position of the first occurrence of an operation in the trace of
\* invocation i, 0 if it never happened
FirstAt(i, op) ==
    LET idx == {k \in 1..Len(trace[i]) : trace[i][k] = op}
    IN  IF idx = {} THEN 0 ELSE CHOOSE k \in idx : \A j \in idx : k <= j
\* invocation i performed operation op before it submitted its batch
BeforeCommit(i, op) ==
    /\ FirstAt(i, op) > 0
    /\ FirstAt(i, op) < FirstAt(i, <<"commitChanges", "">>)

\* C23: in a sync() run every download and every local delete has been applied
\* to local storage before the batch commit is submitted, and no download or
\* delete_local action contributes an entry to the remote change list.
C23_LocalBeforeCommit ==
    \A i \in Calls :
        (run[i].kind = "sync" /\ Submitted(i)) =>
            /\ \A a \in ActionsOfType(i, "download") :
                  /\ BeforeCommit(i, <<"writeBinary", a.filePath>>)
                  /\ ChangesOf(i, a.filePath) = {}
            /\ \A a \in ActionsOfType(i, "delete_local") :
                  /\ BeforeCommit(i, <<"remove", a.filePath>>)
                  /\ ChangesOf(i, a.filePath) = {}

\* the positions in the trace of invocation i where a resolution is written
ResolutionWrites(i) == {k \in 1..Len(trace[i]) : trace[i][k][1] = "write"}

\* C24: a conflict resolution's content is written to the local file only
\* after the batch commit has succeeded: in every run no resolution content is
\* written before the commit call returns successfully, and if the commit
\* fails no resolution content is written at all.
C24_ResolutionAfterCommit ==
    \A i \in Calls :
        /\ \A k \in ResolutionWrites(i) :
              /\ Submitted(i)
              /\ FirstAt(i, <<"commitChanges", "">>) < k
        /\ run[i].err = "Failed to commit changes" => ResolutionWrites(i) = {}

\* a run has written a resolution: its commit succeeded before
C24_Witness ==
    \E i \in Calls :
        /\ ResolutionWrites(i) # {}
        /\ pc[i] \in {"s_return", "ok"}

\* a run with a resolution whose commit failed
C24_WitnessFailed ==
    \E i \in Calls :
        /\ run[i].err = "Failed to commit changes"
        /\ \E p \in FilePaths : run[i].conflictResolutions[p] # Undef

\* the commit call of invocation i has just failed and no later call was made
CommitJustFailed(i) ==
    /\ run[i].err = "Failed to commit changes"
    /\ pc[i] \in {"s_catch", "threw"}
    /\ \A j \in Calls : j > i => pc[j] = "idle"

\* C25: lastSync is advanced, in memory and in the persisted snapshot, only
\* when the remote batch commit has succeeded: if the commit call fails, the
\* persisted metadata snapshot still holds the pre-run lastSync.
C25_LastSyncOnlyOnSuccess ==
    \A i \in Calls :
        CommitJustFailed(i) =>
            /\ persisted.lastSync = pre[i].persisted.lastSync
            /\ data.lastSync = pre[i].data.lastSync

\* C26: with conflictHandling set to overwriteLocal, every conflicting path is
\* resolved in favour of the remote version: the run produces a download
\* action for it, nothing is uploaded for it, and after the run the local
\* file has the remote content.
C26_OverwriteLocal ==
    \A i \in Calls :
        (HasActionList(i) /\ conflictHandling = "overwriteLocal") =>
            \A p \in run[i].conflicts :
                /\ Action("download", p) \in run[i].actions
                /\ Action("upload", p) \notin run[i].actions
                /\ ~HasChange(i, p, {"create", "update"})
                /\ pc[i] = "s_return" =>
                      vaultFiles[p] = pre[i].remoteTree[p]

\* C27: with conflictHandling set to overwriteRemote, every conflicting path is
\* resolved in favour of the local version: the run produces an upload action
\* for it carrying the current local file content, the local file is not
\* modified, and nothing is downloaded for it.
C27_OverwriteRemote ==
    \A i \in Calls :
        (HasActionList(i) /\ conflictHandling = "overwriteRemote") =>
            \A p \in run[i].conflicts :
                /\ Action("upload", p) \in run[i].actions
                /\ Action("download", p) \notin run[i].actions
                /\ Action("delete_local", p) \notin run[i].actions
                /\ pc[i] \in {"s_apply", "c_begin"} =>
                      run[i].newTreeFiles[p].content = pre[i].vaultFiles[p]
                /\ pc[i] = "s_return" =>
                      /\ vaultFiles[p] = pre[i].vaultFiles[p]
                      /\ <<"writeBinary", p>> \notin Ops(i)

\* the operations that change the vault or the repository
MutatingOps == {"writeBinary", "write", "remove", "createFile", "commitChanges"}
\* invocation i is a sync() run that has got past its conflict handling
PastConflicts(i) ==
    /\ run[i].kind = "sync"
    /\ pc[i] \in {"s_actions", "s_apply", "s_empty", "s_return", "c_begin",
                  "c_commit", "c_after", "ok", "nothing"}

\* C28: with policy ask and at least one conflict, the external resolver is
\* invoked exactly once with all detected conflicts and the run is blocked on
\* it: no download, local delete, local write or batch commit happens before
\* it returns.  With no conflicts, or with any other policy, the resolver is
\* never invoked.
C28_ResolverInvocation ==
    \A i \in Calls :
        /\ Count(i, "onConflicts") <= 1
        /\ pc[i] \in {"s_fetch", "s_manifest", "s_conflicts", "s_resolve"} =>
              /\ Count(i, "onConflicts") = 0
              /\ \A op \in Ops(i) : op[1] \notin MutatingOps
        /\ PastConflicts(i) =>
              IF conflictHandling = "ask" /\ run[i].conflicts # {}
              THEN /\ Count(i, "onConflicts") = 1
                   /\ run[i].asked = run[i].conflicts
                   /\ \A k \in 1..Len(trace[i]) :
                         trace[i][k][1] \in MutatingOps =>
                             FirstAt(i, <<"onConflicts", "">>) < k
              ELSE Count(i, "onConflicts") = 0

\* a run under ask that asked the resolver about its conflict and then
\* submitted its batch
C28_Witness ==
    \E i \in Calls :
        /\ conflictHandling = "ask"
        /\ run[i].conflicts # {}
        /\ Count(i, "onConflicts") = 1
        /\ Submitted(i)

\* a run under another policy that found a conflict and got to its batch
\* without asking
C28_WitnessOtherPolicy ==
    \E i \in Calls :
        /\ conflictHandling # "ask"
        /\ run[i].conflicts # {}
        /\ Submitted(i)

\* C29: if the remote tree has no manifest marker when sync() runs, the run
\* aborts with the 'Remote manifest is missing' failure before any local file
\* write, local delete, metadata mutation or remote commit.
C29_MissingManifestAborts ==
    \A i \in Calls :
        ( /\ run[i].kind = "sync"
          /\ ~pre[i].remoteHasManifest
          /\ pc[i] \notin {"idle", "rejected", "s_fetch"}
          /\ run[i].err # "Failed to get repo content" ) =>
            /\ run[i].err = "Remote manifest is missing"
            /\ pc[i] \in {"s_catch", "failed"}
            /\ trace[i] = << <<"getRepoContent", "">> >>
            /\ pc[i] = "s_catch" =>
                  /\ data = pre[i].data
                  /\ vaultFiles = pre[i].vaultFiles
                  /\ remoteTree = pre[i].remoteTree
                  /\ remoteHasManifest = pre[i].remoteHasManifest
                  /\ remoteManifest = pre[i].remoteManifest

\* a sync() run on a repository that holds files but no manifest marker has
\* aborted
C29_Witness ==
    \E i \in Calls :
        /\ run[i].kind = "sync"
        /\ pc[i] = "s_catch"
        /\ run[i].err = "Remote manifest is missing"
        /\ \E p \in FilePaths : remoteTree[p] # NoFile

\* the parsing strategies invocation i has run, in the order it ran them
StrategiesRun(i) ==
    LET ops == SelectSeq(trace[i], LAMBDA e : e[1] = "strategy")
    IN  [k \in 1..Len(ops) |-> ops[k][2]]
\* the number of base64 layers a strategy strips before it parses
LayersStripped(name) ==
    IF name = "direct" THEN 0 ELSE IF name = "single" THEN 1 ELSE 2
\* the strategy yields JSON on the content served
YieldsJSON(name, content) ==
    content.text # "junk" /\ content.wraps = LayersStripped(name)

\* C30: sync() tries a direct JSON parse, then a single base64 decode and
\* parse, then a double base64 decode and parse, in this order, and stops at
\* the first that succeeds: every strategy it ran before the last one failed,
\* and the last one either succeeded or was the third.  If all three fail the
\* run aborts, having done nothing but the two reads and the three attempts.
C30_ParseFallbackOrder ==
    \A i \in Calls :
        LET ran == StrategiesRun(i)
            n == Len(ran)
        IN  n > 0 =>
              /\ ran = SubSeq(<<"direct", "single", "double">>, 1, n)
              /\ \A k \in 1..(n - 1) : ~YieldsJSON(ran[k], manifestWire)
              /\ YieldsJSON(ran[n], manifestWire) \/ n = 3
              /\ (\A k \in 1..n : ~YieldsJSON(ran[k], manifestWire)) =>
                    /\ pc[i] \in {"s_catch", "failed"}
                    /\ run[i].err = "Failed to parse manifest"
                    /\ trace[i] = << <<"getRepoContent", "">>,
                                     <<"getFileContent", MANIFEST>>,
                                     <<"strategy", "direct">>,
                                     <<"strategy", "single">>,
                                     <<"strategy", "double">> >>
              /\ ( /\ YieldsJSON(ran[n], manifestWire)
                   /\ manifestWire.text = "snapshot" ) =>
                    run[i].err # "Failed to parse manifest"

\* a run parsed a doubly encoded manifest at the third attempt and went on
C30_Witness ==
    \E i \in Calls :
        /\ StrategiesRun(i) = <<"direct", "single", "double">>
        /\ manifestWire = Wire(2, "snapshot")
        /\ pc[i] = "ok"

\* a run tried all three strategies on a manifest none of them parses, and
\* aborted
C30_WitnessAllFail ==
    \E i \in Calls :
        /\ StrategiesRun(i) = <<"direct", "single", "double">>
        /\ manifestWire.wraps = 3
        /\ pc[i] = "failed"

\* C31: metadata records are never purged: no operation (sync, firstSync,
\* downloads, local deletes, remote deletes, the operations run when
\* config-directory sync is toggled) takes the record of a path out of the
\* metadata snapshot.
C31_RecordsNeverPurged ==
    [][\A p \in Paths : data.files[p].present => data'.files[p].present]_vars

\* the statuses of a tree fetch that firstSync takes for an empty repository
EmptySignal == {404, 409}

\* C32: when the first tree fetch of firstSync() fails, the run goes on as on
\* an empty repository exactly when the status is 409 or 404; on any other
\* failure status it ends by rethrowing the error of the fetch, with the guard
\* cleared, and the fetch is all it has done: no store of the vault or of the
\* repository has changed.
C32_EmptyRepoSignal ==
    /\ [][\A i \in Calls :
            (pc[i] = "f_fetch" /\ pc'[i] # "f_fetch") =>
               LET st == run'[i].status
               IN  /\ run'[i].repositoryIsEmpty <=> st \in EmptySignal
                   /\ st \in EmptySignal => pc'[i] = "f_create"
                   /\ st \notin EmptySignal \cup {200} =>
                         /\ pc'[i] = "threw"
                         /\ run'[i].err = "Failed to get repo content"
                         /\ ~syncing'
                         /\ localVars' = localVars
                         /\ remoteVars' = remoteVars]_vars
    /\ [](\A i \in Calls :
            ( /\ run[i].kind = "firstSync"
              /\ run[i].status \notin EmptySignal \cup {0, 200} ) =>
                 /\ pc[i] = "threw"
                 /\ trace[i] = << <<"getRepoContent", "">> >>)

\* a firstSync() run ended on a fetch answered 403; another went on after a
\* fetch answered 404
C32_Witness ==
    /\ \E i \in Calls :
         /\ run[i].kind = "firstSync" /\ run[i].status = 403
         /\ pc[i] = "threw" /\ ~syncing
    /\ \E i \in Calls :
         /\ run[i].kind = "firstSync" /\ run[i].status = 404
         /\ run[i].repositoryIsEmpty /\ pc[i] \notin {"f_fetch", "threw"}

\* invocation i is a sync() run whose resolver returned a resolution for p
Resolved(i, p) ==
    /\ run[i].kind = "sync"
    /\ run[i].conflictResolutions[p] # Undef

\* C33: for every resolution the resolver returned, whatever its content (the
\* empty content included), the change committed for the path carries the
\* resolution's content, and when the run has succeeded the local file holds
\* that same content.
C33_ResolutionContentCommitted ==
    \A i \in Calls : \A p \in FilePaths :
        Resolved(i, p) =>
            /\ pc[i] \in {"c_commit", "c_after", "s_return"} =>
                  /\ ChangesOf(i, p) # {}
                  /\ \A k \in ChangesOf(i, p) :
                        run[i].changes[k].content =
                            run[i].conflictResolutions[p]
            /\ pc[i] = "s_return" =>
                  vaultFiles[p] = run[i].conflictResolutions[p]

\* C34: at most one periodic sync timer is registered at any time, and it is
\* the one the manager holds.  startSyncInterval raises and registers nothing
\* when an interval is running (and only then), stopSyncInterval leaves no
\* interval registered and never raises, restartSyncInterval never raises and
\* leaves exactly one fresh interval registered.
C34_SingleTimer ==
    /\ [](/\ Cardinality(intervals) <= 1
          /\ intervals = IF syncIntervalId = NoTimer THEN {}
                         ELSE {syncIntervalId})
    /\ [][timerCall' # timerCall =>
            /\ timerCall'.op = "start" =>
                  /\ timerCall'.raised <=> intervals # {}
                  /\ timerCall'.raised => intervals' = intervals
                  /\ ~timerCall'.raised =>
                        Cardinality(intervals') = 1 /\ intervals' # intervals
            /\ timerCall'.op = "stop" =>
                  /\ ~timerCall'.raised
                  /\ intervals' = {} /\ syncIntervalId' = NoTimer
            /\ timerCall'.op = "restart" =>
                  /\ ~timerCall'.raised
                  /\ Cardinality(intervals') = 1
                  /\ intervals' \cap intervals = {}]_vars

\* a start was refused while an interval was running, after a restart replaced
\* an earlier interval
C34_Witness ==
    /\ timerCall = TimerCall("start", TRUE)
    /\ timerIds = 2
    /\ intervals = {2}

\* C35: every batch change list built by commitSync, whether for sync() or
\* for either bootstrap of firstSync(), holds at most one change per path, and
\* exactly one for the manifest marker.
C35_OneChangePerPath ==
    \A i \in Calls :
        pc[i] \in {"c_commit", "c_after"} =>
            /\ \A p \in Paths : Cardinality(ChangesOf(i, p)) <= 1
            /\ Cardinality(ChangesOf(i, MANIFEST)) = 1

\* C36: in every sync() run each download names a path that the remote tree
\* listing holds and that the remote manifest does not tombstone, and each
\* delete_remote names a path that the remote tree listing holds, equal
\* timestamps of a tombstone and the other side's record included.
C36_ActionsNameRemoteEntries ==
    \A i \in Calls : \A a \in run[i].actions :
        HasActionList(i) =>
            /\ a.type = "download" =>
                  /\ run[i].files[a.filePath] # Undef
                  /\ ~run[i].remoteMetadata.files[a.filePath].deleted
            /\ a.type = "delete_remote" =>
                  run[i].files[a.filePath] # Undef

\* the changes of invocation i that upload a file other than the manifest
UploadChanges(i) ==
    {c \in EarlierChanges(i) : c.action # "delete" /\ c.path # MANIFEST}

\* C37: when a run has succeeded, for every path it uploaded, a path uploaded
\* from a conflict resolution included, the hash in the local record and the
\* hash in the committed manifest are the hash of the content committed for
\* the path, which is also the hash of the local file at the end of the run.
C37_UploadedHashes ==
    \A i \in Calls :
        pc[i] \in {"s_return", "f_return"} =>
            \A c \in UploadChanges(i) :
                /\ data.files[c.path].sha = Hash(c.content)
                /\ FinalChange(i).manifest.files[c.path].sha = Hash(c.content)
                /\ calculateSHA(c.path) = Hash(c.content)

\* the positions of a sync() run up to its return on an empty action list
UpToNothing == {"s_fetch", "s_manifest", "s_conflicts", "s_resolve",
                "s_actions", "s_empty", "nothing"}

\* C38: a sync() run that computes an empty action list returns at once: it
\* submits no commit, and none of its steps, from the call to the return,
\* changes lastSync, a file record or a local file.
C38_NothingToSync ==
    /\ [][\A i \in Calls :
            /\ ( /\ pc[i] = "s_actions" /\ pc'[i] # "s_actions"
                 /\ run'[i].actions = {} ) => pc'[i] = "s_empty"
            /\ (pc'[i] # pc[i] /\ pc'[i] \in UpToNothing) =>
                  /\ data' = data
                  /\ persisted' = persisted
                  /\ vaultFiles' = vaultFiles
                  /\ remoteVars' = remoteVars]_vars
    /\ [](\A i \in Calls :
            pc[i] \in {"s_empty", "nothing"} =>
                /\ run[i].actions = {}
                /\ \A k \in 1..Len(trace[i]) : trace[i][k][1] \notin WriteOps)

\* a sync() run found nothing to do on a vault that holds files
C38_Witness ==
    \E i \in Calls :
        /\ run[i].kind = "sync"
        /\ pc[i] = "nothing"
        /\ \E p \in FilePaths : vaultFiles[p] # NoFile

\* C39: with policy ask, a path reported to the resolver for which it returned
\* no resolution is left alone by the run: the action list holds no upload,
\* download, local delete or remote delete for it, and the run performs no
\* operation on it.
C39_UnresolvedLeftUntouched ==
    \A i \in Calls : \A p \in run[i].asked :
        ( /\ run[i].kind = "sync"
          /\ conflictHandling = "ask"
          /\ HasActionList(i)
          /\ run[i].conflictResolutions[p] = Undef ) =>
            /\ \A a \in run[i].actions : a.filePath # p
            /\ \A k \in 1..Len(trace[i]) :
                  trace[i][k][1] \in MutatingOps => trace[i][k][2] # p

\* C40: when a sync() or firstSync() run ends successfully and clears the
\* guard, every metadata save the run issued (the one at the end of
\* commitSync, those of its local deletes) has completed: no save is in
\* flight, so the next run cannot start while one is.
C40_SavesCompleteBeforeRelease ==
    [][\A i \in Calls :
          (pc[i] \in {"s_return", "f_return"} /\ pc'[i] = "ok") =>
              inflight' = {}]_vars

====
